---- MODULE Spec2Model ----
(***************************************************************************)
(* A model of dynactl's artifact synchronization engine: the credential    *)
(* store and resolver, the login command, the pull orchestrator and the    *)
(* mirror command.                                                         *)
(*                                                                         *)
(* Go strings are modelled as sequences of tokens.  A token is either a    *)
(* separator character ("/", ":", "@", "\n") or an atom, a separator-free  *)
(* run of characters.  The empty Go string "" is the empty sequence <<>>.  *)
(* Go errors are modelled as tags; Nil is the nil error.                   *)
(***************************************************************************)
EXTENDS Integers, Sequences, FiniteSets, TLC

VARIABLES
  credentialStoreOnce,    \* sync.Once of loadCredentialStore has run (this process)
  cachedCredentialStore,  \* *credentialStore cached in memory (this process)
  credentialStoreErr,     \* load error cached in memory (this process)
  storeFile,              \* ~/.dynactl/credentials.json on disk
  lastOp,                 \* the last call made and what it returned
  manifest,               \* the ArtifactManifest loaded for this run
  components,             \* PullArtifacts: the converted component list
  pc,                     \* PullArtifacts: where the call stands
  idx,                    \* pullAllArtifacts: index of the next component
  result,                 \* pullAllArtifacts: the PullResult being built
  attempts,               \* history: the pullSingleArtifact calls made, in order
  retErr,                 \* what PullArtifacts, or pull's RunE before it, returned
  lastReq,                \* the registry request of the last pull, if one was sent
  outputDir,              \* the artifact files in the output directory
  mirrorFlags,            \* the flags of the command line, of mirror or of pull
  mirrorPc,               \* mirror: where RunE stands
  cleanup,                \* mirror: RunE's cleanup, os.RemoveAll(cacheDir) deferred
  cacheDir,               \* mirror: the cache directory on disk
  pulled,                 \* history: the artifact files the pull phase wrote
  pushIdx,                \* mirrorContainerImages: index of the next image
  pushes,                 \* history: the pushes attempted, in order
  pushed,                 \* the references present in the target registry
  mirrorErr,              \* what mirror's RunE returned
  fnOp,                   \* the function applied last, outside any command run
  fnIn,                   \* its arguments
  fnOut,                  \* what it returned
  procs                   \* concurrent logins: each invocation's position and memory

credVars == <<credentialStoreOnce, cachedCredentialStore, credentialStoreErr,
              storeFile>>

pullVars == <<manifest, components, pc, idx, result, attempts, retErr,
              lastReq, outputDir>>

mirrorVars == <<mirrorFlags, mirrorPc, cleanup, cacheDir, pulled, pushIdx,
                pushes, pushed, mirrorErr>>

fnVars == <<fnOp, fnIn, fnOut>>

vars == <<credentialStoreOnce, cachedCredentialStore, credentialStoreErr,
          storeFile, lastOp, manifest, components, pc, idx, result, attempts,
          retErr, lastReq, outputDir, mirrorFlags, mirrorPc, cleanup, cacheDir,
          pulled, pushIdx, pushes, pushed, mirrorErr, fnOp, fnIn, fnOut, procs>>

----------------------------------------------------------------------------
(* Strings *)

EmptyStr == <<>>

Nil == "nil"

\* strings.Index(s, sep) for a one-token separator; 0 stands for Go's -1
Index(s, sep) ==
  IF \E i \in 1..Len(s) : s[i] = sep
  THEN CHOOSE i \in 1..Len(s) : s[i] = sep /\ \A j \in 1..(i-1) : s[j] # sep
  ELSE 0

\* strings.LastIndex(s, sep) for a one-token separator; 0 stands for Go's -1
LastIndex(s, sep) ==
  IF \E i \in 1..Len(s) : s[i] = sep
  THEN CHOOSE i \in 1..Len(s) : s[i] = sep /\ \A j \in (i+1)..Len(s) : s[j] # sep
  ELSE 0

\* strings.Contains(s, sep) for a one-token separator
Contains(s, sep) == \E i \in 1..Len(s) : s[i] = sep

\* strings.HasPrefix
HasPrefix(s, p) == Len(s) >= Len(p) /\ SubSeq(s, 1, Len(p)) = p

\* strings.HasSuffix
HasSuffix(s, p) == Len(s) >= Len(p) /\ SubSeq(s, Len(s) - Len(p) + 1, Len(s)) = p

\* strings.TrimPrefix
TrimPrefix(s, p) == IF HasPrefix(s, p) THEN SubSeq(s, Len(p) + 1, Len(s)) ELSE s

\* strings.TrimSuffix
TrimSuffix(s, p) == IF HasSuffix(s, p) THEN SubSeq(s, 1, Len(s) - Len(p)) ELSE s

\* strings.Split(s, sep) for a one-token separator: always at least one part
RECURSIVE Split(_, _)
Split(s, sep) ==
  LET i == Index(s, sep)
  IN IF i = 0 THEN <<s>>
     ELSE <<SubSeq(s, 1, i - 1)>> \o Split(SubSeq(s, i + 1, Len(s)), sep)

\* strings.TrimRight(s, "\r\n"): drop trailing CR and LF tokens
RECURSIVE TrimRightCRLF(_)
TrimRightCRLF(s) ==
  IF Len(s) > 0 /\ s[Len(s)] \in {"\n", "\r"}
  THEN TrimRightCRLF(SubSeq(s, 1, Len(s) - 1))
  ELSE s

OciPrefix == <<"oci", ":", "/", "/">>

----------------------------------------------------------------------------
(* Credentials *)

\* RegistryCredential{}: the zero value
ZeroRegistryCredential ==
  [Username |-> EmptyStr, Password |-> EmptyStr,
   IdentityToken |-> EmptyStr, AccessToken |-> EmptyStr]

\* oras_auth.EmptyCredential
EmptyCredential ==
  [Username |-> EmptyStr, Password |-> EmptyStr,
   RefreshToken |-> EmptyStr, AccessToken |-> EmptyStr]

\* registry hosts the calls are made with ("" included)
Hosts == {EmptyStr, <<"r1">>, <<"r2">>}

\* stored credential records the store file and the calls are populated with
CredSamples ==
  { [Username |-> <<"u">>, Password |-> <<"p">>,
     IdentityToken |-> EmptyStr, AccessToken |-> EmptyStr],
    [Username |-> <<"u">>, Password |-> EmptyStr,
     IdentityToken |-> EmptyStr, AccessToken |-> EmptyStr],
    [Username |-> EmptyStr, Password |-> EmptyStr,
     IdentityToken |-> EmptyStr, AccessToken |-> <<"a">>] }

\* registry hosts credentials are saved for; the other host never has an entry
SaveHosts == {EmptyStr, <<"r1">>}

\* map[string]RegistryCredential values over the non-empty hosts saved for
CredMaps ==
  UNION { [D -> CredSamples] : D \in SUBSET (SaveHosts \ {EmptyStr}) }

EmptyMap == [h \in {} |-> ZeroRegistryCredential]

\* m[registry] = cred
MapSet(m, registry, cred) ==
  [h \in (DOMAIN m) \cup {registry} |-> IF h = registry THEN cred ELSE m[h]]

\* a nil *credentialStore
NilStore == [isNil |-> TRUE, Credentials |-> EmptyMap]

StoreOf(m) == [isNil |-> FALSE, Credentials |-> m]

\* file permission bits that matter: owner read, owner write, group read, other read
OwnerOnly == {"ur", "uw"}

ModeSamples == { {"ur", "uw"}, {"ur", "uw", "gr", "or"}, {"ur"}, {"uw"} }

\* the store file's content: a parsable map, a JSON document without the
\* "credentials" key (nil map), or bytes json.Unmarshal rejects (an empty
\* or partially written file included)
ContentMap(m) == [kind |-> "map", creds |-> m]
ContentNilMap == [kind |-> "nilmap", creds |-> EmptyMap]
ContentGarbage == [kind |-> "garbage", creds |-> EmptyMap]

AbsentFile == [exists |-> FALSE, mode |-> {}, content |-> ContentGarbage]

\* what the environment does to one call: nothing, or one failing system call
EnvOutcomes == {"ok", "homeErr", "readErr", "mkdirErr", "openErr", "writeErr"}

\* the credential state as one value, so that the functions below can be composed
World ==
  [once |-> credentialStoreOnce, cached |-> cachedCredentialStore,
   cerr |-> credentialStoreErr, file |-> storeFile]

\* credentialStorePath: fails when the home directory cannot be determined
credentialStorePath(env) == IF env = "homeErr" THEN "home" ELSE Nil

\* the body handed to credentialStoreOnce.Do
loadOnceBody(w, env) ==
  IF credentialStorePath(env) # Nil
  THEN [w EXCEPT !.cerr = "home"]
  ELSE IF ~w.file.exists
  THEN [w EXCEPT !.cached = StoreOf(EmptyMap)]
  ELSE IF env = "readErr" \/ "ur" \notin w.file.mode
  THEN [w EXCEPT !.cerr = "read"]
  ELSE IF w.file.content.kind = "garbage"
  THEN [w EXCEPT !.cerr = "parse"]
  ELSE IF w.file.content.kind = "nilmap"
  THEN [w EXCEPT !.cached = StoreOf(EmptyMap)]
  ELSE [w EXCEPT !.cached = StoreOf(w.file.content.creds)]

\* loadCredentialStore after credentialStoreOnce.Do: what it returns from
\* the cached values
loadCredentialStoreReturn(w1) ==
  IF w1.cerr # Nil
  THEN [w |-> w1, store |-> NilStore, err |-> w1.cerr]
  ELSE [w |-> w1, store |-> w1.cached, err |-> Nil]

\* loadCredentialStore: (store, err) and the state it leaves
loadCredentialStore(w, env) ==
  loadCredentialStoreReturn(
    IF w.once THEN w ELSE [loadOnceBody(w, env) EXCEPT !.once = TRUE])

\* GetRegistryCredential once loadCredentialStore has returned l
GetRegistryCredentialLookup(l, registry) ==
  IF l.err # Nil
  THEN [w |-> l.w, cred |-> ZeroRegistryCredential, ok |-> FALSE, err |-> l.err]
  ELSE IF registry \in DOMAIN l.store.Credentials
  THEN [w |-> l.w, cred |-> l.store.Credentials[registry], ok |-> TRUE, err |-> Nil]
  ELSE [w |-> l.w, cred |-> ZeroRegistryCredential, ok |-> FALSE, err |-> Nil]

\* GetRegistryCredential: (cred, ok, err) and the state it leaves
GetRegistryCredential(w, registry, env) ==
  IF registry = EmptyStr
  THEN [w |-> w, cred |-> ZeroRegistryCredential, ok |-> FALSE, err |-> "emptyRegistry"]
  ELSE GetRegistryCredentialLookup(loadCredentialStore(w, env), registry)

\* os.OpenFile(path, O_CREATE|O_WRONLY|O_TRUNC, 0o600): a new file gets mode
\* 0600; an existing one keeps its mode, must be owner-writable, and is
\* truncated
openForWrite(file, env) ==
  IF env = "openErr" THEN [file |-> file, err |-> "open"]
  ELSE IF ~file.exists
  THEN [file |-> [exists |-> TRUE, mode |-> OwnerOnly, content |-> ContentGarbage],
        err |-> Nil]
  ELSE IF "uw" \notin file.mode THEN [file |-> file, err |-> "open"]
  ELSE [file |-> [file EXCEPT !.content = ContentGarbage], err |-> Nil]

\* SaveRegistryCredential from json.NewEncoder(file).Encode(store) on: o is
\* what os.OpenFile returned
SaveRegistryCredentialEncode(w2, o, env) ==
  IF o.err # Nil THEN [w |-> w2, err |-> "open"]
  ELSE IF env = "writeErr"
  THEN [w |-> [w2 EXCEPT !.file = o.file], err |-> "write"]
  ELSE [w |-> [w2 EXCEPT !.file = [o.file EXCEPT
                                     !.content = ContentMap(w2.cached.Credentials)]],
        err |-> Nil]

\* SaveRegistryCredential from credentialStorePath() on: w2 is the state
\* with the entry set in the cached store
SaveRegistryCredentialWrite(w2, env) ==
  IF credentialStorePath(env) # Nil THEN [w |-> w2, err |-> "path"]
  ELSE IF env = "mkdirErr" THEN [w |-> w2, err |-> "mkdir"]
  ELSE SaveRegistryCredentialEncode(w2, openForWrite(w2.file, env), env)

\* a store that forgets its other entries when one is set
setCredential_Alone(store, registry, cred) ==
  StoreOf(MapSet(EmptyMap, registry, cred))

\* store.Credentials[registry] = cred
setCredential(store, registry, cred) ==
  StoreOf(MapSet(store.Credentials, registry, cred))

\* SaveRegistryCredential once loadCredentialStore has returned l:
\* store.Credentials[registry] = cred writes through the cached pointer
SaveRegistryCredentialSet(l, registry, cred, env) ==
  IF l.err # Nil THEN [w |-> l.w, err |-> "load"]
  ELSE SaveRegistryCredentialWrite(
         [l.w EXCEPT !.cached = setCredential(l.store, registry, cred)],
         env)

\* SaveRegistryCredential: err and the state it leaves
SaveRegistryCredential(w, registry, cred, env) ==
  IF registry = EmptyStr THEN [w |-> w, err |-> "emptyRegistry"]
  ELSE SaveRegistryCredentialSet(loadCredentialStore(w, env), registry, cred, env)

----------------------------------------------------------------------------
(* Resolution *)

\* authn.AuthConfig{}: the zero value
ZeroAuthConfig ==
  [Username |-> EmptyStr, Password |-> EmptyStr,
   IdentityToken |-> EmptyStr, RegistryToken |-> EmptyStr]

AuthConfigSamples ==
  { ZeroAuthConfig,
    [Username |-> <<"ku">>, Password |-> <<"kp">>,
     IdentityToken |-> EmptyStr, RegistryToken |-> EmptyStr],
    [Username |-> <<"ku">>, Password |-> EmptyStr,
     IdentityToken |-> EmptyStr, RegistryToken |-> EmptyStr] }

\* what authn.DefaultKeychain does for one lookup: Resolve fails, Resolve
\* returns authn.Anonymous, Authorization() fails, Authorization() returns a
\* nil config, or Authorization() returns a config
KeychainOutcomes ==
  { [kind |-> k, cfg |-> ZeroAuthConfig] : k \in {"resolveErr", "anonymous", "authErr", "nilCfg"} }
  \cup { [kind |-> "cfg", cfg |-> c] : c \in AuthConfigSamples }

NoKeychain == [kind |-> "anonymous", cfg |-> ZeroAuthConfig]

\* the outcomes dynactlKeychain.Resolve tells apart: an error, Anonymous, or
\* an authenticator of the default keychain
KeychainSamples ==
  { kc \in KeychainOutcomes :
      kc.kind \in {"resolveErr", "anonymous"}
      \/ (kc.kind = "cfg" /\ kc.cfg.Password # EmptyStr) }

\* resolveFromDefaultKeychain: (cred, found); its error result is always nil
resolveFromDefaultKeychain(registry, kc) ==
  IF kc.kind = "resolveErr" THEN [cred |-> EmptyCredential, found |-> FALSE]
  ELSE IF kc.kind = "anonymous" THEN [cred |-> EmptyCredential, found |-> FALSE]
  ELSE IF kc.kind = "authErr" THEN [cred |-> EmptyCredential, found |-> FALSE]
  ELSE IF kc.kind = "nilCfg" THEN [cred |-> EmptyCredential, found |-> FALSE]
  ELSE LET cred == [Username |-> kc.cfg.Username, Password |-> kc.cfg.Password,
                    RefreshToken |-> kc.cfg.IdentityToken,
                    AccessToken |-> kc.cfg.RegistryToken]
       IN IF cred.Username = EmptyStr /\ cred.Password = EmptyStr
             /\ cred.RefreshToken = EmptyStr /\ cred.AccessToken = EmptyStr
          THEN [cred |-> EmptyCredential, found |-> FALSE]
          ELSE [cred |-> cred, found |-> TRUE]

convertStoredCredential(storeCred) ==
  [Username |-> storeCred.Username, Password |-> storeCred.Password,
   RefreshToken |-> storeCred.IdentityToken, AccessToken |-> storeCred.AccessToken]

\* resolveRegistryCredential once GetRegistryCredential has returned g
resolveRegistryCredentialFromStore(g) ==
  IF g.err # Nil THEN [w |-> g.w, cred |-> EmptyCredential, err |-> g.err]
  ELSE IF g.ok
  THEN [w |-> g.w, cred |-> convertStoredCredential(g.cred), err |-> Nil]
  ELSE [w |-> g.w, cred |-> EmptyCredential, err |-> Nil]

\* resolveRegistryCredential: (cred, err) and the state it leaves
resolveRegistryCredential(w, registry, kc, env) ==
  IF registry = EmptyStr
  THEN [w |-> w, cred |-> EmptyCredential, err |-> "emptyRegistry"]
  ELSE LET k == resolveFromDefaultKeychain(registry, kc)
       IN IF k.found THEN [w |-> w, cred |-> k.cred, err |-> Nil]
          ELSE resolveRegistryCredentialFromStore(
                 GetRegistryCredential(w, registry, env))

\* an authn.Authenticator: authn.Anonymous, the default keychain's own
\* authenticator (whatever its Authorization() then does), or authn.FromConfig
AnonymousAuth == [kind |-> "anonymous", kc |-> NoKeychain, cfg |-> ZeroAuthConfig]

\* dynactlKeychain.Resolve once GetRegistryCredential has returned g
dynactlKeychainFromStore(g) ==
  IF g.err # Nil THEN [w |-> g.w, auth |-> AnonymousAuth]
  ELSE IF ~g.ok THEN [w |-> g.w, auth |-> AnonymousAuth]
  ELSE [w |-> g.w,
        auth |-> [kind |-> "config", kc |-> NoKeychain,
                  cfg |-> [Username |-> g.cred.Username,
                           Password |-> g.cred.Password,
                           IdentityToken |-> g.cred.IdentityToken,
                           RegistryToken |-> g.cred.AccessToken]]]

\* dynactlKeychain.Resolve: the authenticator (its error result is always
\* nil) and the state it leaves
dynactlKeychainResolve(w, registry, kc, env) ==
  IF kc.kind \notin {"resolveErr", "anonymous"}
  THEN [w |-> w, auth |-> [kind |-> "default", kc |-> kc, cfg |-> ZeroAuthConfig]]
  ELSE dynactlKeychainFromStore(GetRegistryCredential(w, registry, env))

----------------------------------------------------------------------------
(* registry login *)

\* bufio.Reader.ReadBytes('\n'): the bytes up to and including the first
\* newline, or everything (with io.EOF) when there is none
ReadBytesNL(stdin) ==
  IF Index(stdin, "\n") = 0 THEN stdin ELSE SubSeq(stdin, 1, Index(stdin, "\n"))

\* flag values and standard input of one `registry login` invocation
LoginArgs ==
  { a \in [username : {EmptyStr, <<"u">>}, password : {EmptyStr, <<"p">>},
           passwordStdin : BOOLEAN, identityToken : {EmptyStr},
           accessToken : {EmptyStr, <<"a">>},
           stdin : {EmptyStr, <<"p", "\n">>}, stdinErr : BOOLEAN] :
      /\ ~a.passwordStdin => (a.stdin = EmptyStr /\ ~a.stdinErr)
      /\ a.stdinErr => a.stdin = EmptyStr
      /\ a.accessToken # EmptyStr => (a.username = EmptyStr /\ ~a.passwordStdin) }

ZeroArgs ==
  [username |-> EmptyStr, password |-> EmptyStr, passwordStdin |-> FALSE,
   identityToken |-> EmptyStr, accessToken |-> EmptyStr,
   stdin |-> EmptyStr, stdinErr |-> FALSE]

\* the password after the --password-stdin block of loginCmd.RunE
loginPassword(a) ==
  IF a.passwordStdin THEN TrimRightCRLF(ReadBytesNL(a.stdin)) ELSE a.password

\* the validation part of loginCmd.RunE: the error it returns, Nil when the
\* inputs pass
loginValidate(a) ==
  IF a.passwordStdin /\ a.password # EmptyStr THEN "bothPasswords"
  ELSE IF a.passwordStdin /\ a.stdinErr THEN "stdinRead"
  ELSE IF loginPassword(a) # EmptyStr /\ a.username = EmptyStr THEN "usernameRequired"
  ELSE IF loginPassword(a) = EmptyStr /\ a.identityToken = EmptyStr
          /\ a.accessToken = EmptyStr THEN "noSecret"
  ELSE Nil

\* loginCmd.RunE with the save moved in front of the validation
loginCmdRunE_SaveFirst(w, registry, a, env) ==
  LET cred == [Username |-> a.username, Password |-> loginPassword(a),
               IdentityToken |-> a.identityToken, AccessToken |-> a.accessToken]
      sv == SaveRegistryCredential(w, registry, cred, env)
  IN IF sv.err # Nil THEN [w |-> sv.w, cred |-> cred, err |-> sv.err]
     ELSE [w |-> sv.w, cred |-> cred, err |-> loginValidate(a)]

\* loginCmd.RunE: err, the credential built, and the state it leaves
loginCmdRunE(w, registry, a, env) ==
  LET cred == [Username |-> a.username, Password |-> loginPassword(a),
               IdentityToken |-> a.identityToken, AccessToken |-> a.accessToken]
  IN IF loginValidate(a) # Nil
     THEN [w |-> w, cred |-> ZeroRegistryCredential, err |-> loginValidate(a)]
     ELSE LET sv == SaveRegistryCredential(w, registry, cred, env)
          IN [w |-> sv.w, cred |-> cred, err |-> sv.err]

----------------------------------------------------------------------------
(* Manifest and components *)

\* image URIs a manifest lists: tagged below two path levels, and untagged
ImageSamples ==
  { OciPrefix \o <<"r1", "/", "a", "/", "foo", ":", "t1">>,
    OciPrefix \o <<"r1", "/", "bar">> }

\* model URIs a manifest lists: tagged, and one without a repository path
ModelSamples ==
  { OciPrefix \o <<"r1", "/", "m", "/", "mod", ":", "t2">>,
    OciPrefix \o <<"mod">> }

\* HelmChart entries a manifest lists
ChartSamples ==
  { [Name |-> <<"base">>, Version |-> <<"1.1.2">>,
     Filename |-> <<"base", "-", "1.1.2", ".tgz">>,
     HarborPath |-> OciPrefix \o <<"r1", "/", "charts", "/", "base", "-", "1.1.2", ".tgz">>] }

\* the largest number of artifacts a manifest lists
MaxArtifacts == 3

\* the sequences over S of length at most n
RECURSIVE SeqsUpTo(_, _)
SeqsUpTo(S, n) ==
  IF n = 0 THEN { <<>> }
  ELSE LET shorter == SeqsUpTo(S, n - 1)
       IN shorter \cup { Append(q, x) : q \in shorter, x \in S }

Manifests ==
  { m \in [Images : SeqsUpTo(ImageSamples, MaxArtifacts),
           Models : SeqsUpTo(ModelSamples, MaxArtifacts),
           Charts : SeqsUpTo(ChartSamples, MaxArtifacts)] :
      Len(m.Images) + Len(m.Models) + Len(m.Charts) <= MaxArtifacts }

EmptyManifest == [Images |-> <<>>, Models |-> <<>>, Charts |-> <<>>]

\* extractNameFromURI: the part before the first ":", then its last "/" segment
extractNameFromURI(uri) ==
  LET parts == Split(uri, ":")
      path == parts[1]
      pathParts == Split(path, "/")
  IN IF Len(pathParts) > 0 THEN pathParts[Len(pathParts)] ELSE uri

\* an image conversion that moves the URI's tag into Tag
imageComponent_SplitTag(imgURI) ==
  LET uri == TrimPrefix(imgURI, OciPrefix)
      parts == Split(uri, ":")
  IN [Name |-> extractNameFromURI(uri), Type |-> "containerImage",
      URI |-> parts[1],
      Tag |-> IF Len(parts) > 1 THEN parts[Len(parts)] ELSE <<"latest">>,
      Digest |-> EmptyStr,
      MediaType |-> "application/vnd.oci.image.manifest.v1+json"]

imageComponent(imgURI) ==
  LET uri == TrimPrefix(imgURI, OciPrefix)
  IN [Name |-> extractNameFromURI(uri), Type |-> "containerImage", URI |-> uri,
      Tag |-> EmptyStr, Digest |-> EmptyStr,
      MediaType |-> "application/vnd.oci.image.manifest.v1+json"]

modelComponent(modelURI) ==
  LET uri == TrimPrefix(modelURI, OciPrefix)
  IN [Name |-> extractNameFromURI(uri), Type |-> "mlModel", URI |-> uri,
      Tag |-> EmptyStr, Digest |-> EmptyStr,
      MediaType |-> "application/vnd.dynamoai.model.v1+tar.gz"]

chartComponent(chart) ==
  LET uri == TrimPrefix(chart.HarborPath, OciPrefix)
  IN [Name |-> chart.Name, Type |-> "helmChart", URI |-> uri,
      Tag |-> chart.Version, Digest |-> EmptyStr,
      MediaType |-> "application/vnd.oci.image.manifest.v1+json"]

\* a conversion that appends the models before the images
convertManifestToComponents_ModelsFirst(m) ==
  [i \in 1..Len(m.Models) |-> modelComponent(m.Models[i])]
  \o [i \in 1..Len(m.Images) |-> imageComponent(m.Images[i])]
  \o [i \in 1..Len(m.Charts) |-> chartComponent(m.Charts[i])]

\* convertManifestToComponents: images, then models, then charts
convertManifestToComponents(m) ==
  [i \in 1..Len(m.Images) |-> imageComponent(m.Images[i])]
  \o [i \in 1..Len(m.Models) |-> modelComponent(m.Models[i])]
  \o [i \in 1..Len(m.Charts) |-> chartComponent(m.Charts[i])]

----------------------------------------------------------------------------
(* Transfer backends: pull *)

\* splitRepositoryAndReference: (repo, ref)
splitRepositoryAndReference(uri) ==
  LET i == LastIndex(uri, ":")
      j == LastIndex(uri, "@")
  IN IF i # 0 /\ ~Contains(SubSeq(uri, i + 1, Len(uri)), "/")
     THEN [repo |-> SubSeq(uri, 1, i - 1), ref |-> SubSeq(uri, i + 1, Len(uri))]
     ELSE IF j # 0
     THEN [repo |-> SubSeq(uri, 1, j - 1), ref |-> SubSeq(uri, j + 1, Len(uri))]
     ELSE [repo |-> uri, ref |-> EmptyStr]

\* the registry host of a reference, as the client libraries parse it: the
\* part before the first "/"
registryOf(reference) ==
  IF Index(reference, "/") = 0 THEN EmptyStr
  ELSE SubSeq(reference, 1, Index(reference, "/") - 1)

\* path.Dir for the paths that occur: all but the last element, "." if none
pathDir(s) ==
  IF LastIndex(s, "/") = 0 THEN <<".">>
  ELSE IF LastIndex(s, "/") = 1 THEN <<"/">>
  ELSE SubSeq(s, 1, LastIndex(s, "/") - 1)

\* path.Base for the paths that occur: the last element, "." if empty
pathBase(s) ==
  IF s = EmptyStr THEN <<".">>
  ELSE IF LastIndex(s, "/") = Len(s) THEN <<"/">>
  ELSE SubSeq(s, LastIndex(s, "/") + 1, Len(s))

\* what the environment does to one pull: the default keychain's answer, and
\* nothing, a failing network transfer or a failing file operation
PullOracles ==
  [kc : { kc \in KeychainOutcomes :
            kc.kind = "anonymous" \/ (kc.kind = "cfg" /\ kc.cfg.Password # EmptyStr) },
   io : {"ok", "netErr", "fsErr"}]

NoReq == [sent |-> FALSE, path |-> "none", registry |-> EmptyStr, cred |-> EmptyCredential]

Req(path, registry, cred) ==
  [sent |-> TRUE, path |-> path, registry |-> registry, cred |-> cred]

NoFile == EmptyStr

\* the credential a client left at its default options presents: the default
\* keychain's, or none
defaultKeychainCredential(registry, kc) ==
  resolveFromDefaultKeychain(registry, kc).cred

\* an image pull that rejects a component without tag and digest
pullContainerImage_FailFast(w, component, o) ==
  IF component.Tag = EmptyStr /\ component.Digest = EmptyStr
  THEN [w |-> w, err |-> "missingReference", req |-> NoReq, file |-> NoFile]
  ELSE IF o.io = "netErr"
  THEN [w |-> w, err |-> "pull",
        req |-> Req("image", registryOf(component.URI),
                    defaultKeychainCredential(registryOf(component.URI), o.kc)),
        file |-> NoFile]
  ELSE [w |-> w, err |-> IF o.io = "fsErr" THEN "save" ELSE Nil,
        req |-> Req("image", registryOf(component.URI),
                    defaultKeychainCredential(registryOf(component.URI), o.kc)),
        file |-> IF o.io = "fsErr" THEN NoFile ELSE component.Name \o <<".tar">>]

\* pullContainerImage: err, the request made, the file written and the state
\* it leaves
pullContainerImage(w, component, o) ==
  LET reference ==
        IF component.Tag # EmptyStr THEN component.URI \o <<":">> \o component.Tag
        ELSE IF component.Digest # EmptyStr
        THEN component.URI \o <<"@">> \o component.Digest
        ELSE component.URI
      \* crane.Pull(reference) is called without an authentication option
      req == Req("image", registryOf(reference),
                 defaultKeychainCredential(registryOf(reference), o.kc))
  IN IF reference = EmptyStr
     THEN [w |-> w, err |-> "parseReference", req |-> NoReq, file |-> NoFile]
     ELSE IF o.io = "netErr"
     THEN [w |-> w, err |-> "pull", req |-> req, file |-> NoFile]
     ELSE IF o.io = "fsErr"
     THEN [w |-> w, err |-> "save", req |-> req, file |-> NoFile]
     ELSE [w |-> w, err |-> Nil, req |-> req, file |-> component.Name \o <<".tar">>]

\* pullHelmChart: err, the request made, the file written and the state it
\* leaves
pullHelmChart(w, component, o) ==
  LET basePath == TrimSuffix(component.URI, <<".tgz">>)
      dirPath == pathDir(basePath)
      fileBase0 == pathBase(basePath)
      fileBase == IF HasSuffix(fileBase0, <<"-">> \o component.Tag)
                  THEN TrimSuffix(fileBase0, <<"-">> \o component.Tag)
                  ELSE fileBase0
      repoPath == IF dirPath = <<".">> \/ dirPath = EmptyStr THEN fileBase
                  ELSE IF pathBase(dirPath) # fileBase
                  THEN dirPath \o <<"/">> \o fileBase
                  ELSE dirPath
      \* the chart downloader is built from getter.All(cli.New()): its
      \* registry client reads the default credential files only
      req == Req("chart", registryOf(repoPath),
                 defaultKeychainCredential(registryOf(repoPath), o.kc))
  IN IF repoPath = EmptyStr
     THEN [w |-> w, err |-> "invalidChartPath", req |-> NoReq, file |-> NoFile]
     ELSE IF o.io # "ok"
     THEN [w |-> w, err |-> "download", req |-> req, file |-> NoFile]
     ELSE [w |-> w, err |-> Nil, req |-> req,
           file |-> component.Name \o <<"-">> \o component.Tag \o <<".tgz">>]

\* oras.Copy once the client's Credential function has returned r
orasCopyWith(r, path, registry, o, file) ==
  IF r.err # Nil
  THEN [w |-> r.w, err |-> "copy", req |-> NoReq, file |-> NoFile]
  ELSE IF o.io = "netErr"
  THEN [w |-> r.w, err |-> "copy", req |-> Req(path, registry, r.cred), file |-> NoFile]
  ELSE [w |-> r.w, err |-> Nil, req |-> Req(path, registry, r.cred), file |-> file]

\* the ORAS transfer both pullOrasArtifact and PullManifestFromRegistry run:
\* repo.Client asks resolveRegistryCredential for the registry's credential
orasCopy(w, path, repoPart, o, file) ==
  IF registryOf(repoPart) = EmptyStr
  THEN [w |-> w, err |-> "newRepository", req |-> NoReq, file |-> NoFile]
  ELSE orasCopyWith(resolveRegistryCredential(w, registryOf(repoPart), o.kc, "ok"),
                    path, registryOf(repoPart), o, file)

\* pullOrasArtifact: err, the request made, the file written and the state
\* it leaves
pullOrasArtifact(w, component, o) ==
  LET uri == component.URI
      sp == splitRepositoryAndReference(uri)
      repoPart == sp.repo
      refPart == IF sp.ref = EmptyStr THEN <<"latest">> ELSE sp.ref
      artifactPath == IF refPart # EmptyStr /\ refPart # <<"latest">>
                      THEN component.Name \o <<"-">> \o refPart \o <<".tar">>
                      ELSE component.Name \o <<".tar">>
  IN IF ~Contains(uri, "/")
     THEN [w |-> w, err |-> "invalidURI", req |-> NoReq, file |-> NoFile]
     ELSE IF o.io = "fsErr"
     THEN [w |-> w, err |-> "fileStore", req |-> NoReq, file |-> NoFile]
     ELSE orasCopy(w, "model", repoPart, o, artifactPath)

\* PullManifestFromRegistry: err, the request made, the file written and the
\* state it leaves
PullManifestFromRegistry(w, reference, o) ==
  LET trimmedRef == TrimPrefix(reference, OciPrefix)
      sp == splitRepositoryAndReference(trimmedRef)
  IN IF reference = EmptyStr
     THEN [w |-> w, err |-> "emptyReference", req |-> NoReq, file |-> NoFile]
     ELSE IF sp.repo = EmptyStr
     THEN [w |-> w, err |-> "invalidReference", req |-> NoReq, file |-> NoFile]
     ELSE IF o.io = "fsErr"
     THEN [w |-> w, err |-> "outputStore", req |-> NoReq, file |-> NoFile]
     ELSE orasCopy(w, "manifest", sp.repo, o, <<"manifest.json">>)

\* pullSingleArtifact: dispatch on the component type
pullSingleArtifact(w, component, o) ==
  IF component.Type = "containerImage" THEN pullContainerImage(w, component, o)
  ELSE IF component.Type = "helmChart" THEN pullHelmChart(w, component, o)
  ELSE pullOrasArtifact(w, component, o)

----------------------------------------------------------------------------
(* Pull orchestrator *)

\* the PullResult pullAllArtifacts starts from (Duration left out)
newPullResult(comps) ==
  [TotalArtifacts |-> Len(comps), SuccessCount |-> 0, FailedCount |-> 0,
   Errors |-> <<>>]

\* one iteration of pullAllArtifacts that forgets to count a failure
recordPull_NoCount(res, component, err) ==
  IF err # Nil
  THEN [res EXCEPT !.Errors = Append(@, [Name |-> component.Name, err |-> err])]
  ELSE [res EXCEPT !.SuccessCount = @ + 1]

\* one iteration of pullAllArtifacts: the bookkeeping after pullSingleArtifact
recordPull(res, component, err) ==
  IF err # Nil
  THEN [res EXCEPT !.FailedCount = @ + 1,
                   !.Errors = Append(@, [Name |-> component.Name, err |-> err])]
  ELSE [res EXCEPT !.SuccessCount = @ + 1]

\* a loop that stops at the first failed component
nextPull_StopOnError(i, n, err) ==
  IF err # Nil \/ i >= n THEN [pc |-> "summary", idx |-> i + 1]
  ELSE [pc |-> "loop", idx |-> i + 1]

\* the range loop of pullAllArtifacts: on to the next component, whatever
\* the outcome, until the list is exhausted
nextPull(i, n, err) ==
  IF i >= n THEN [pc |-> "summary", idx |-> i + 1]
  ELSE [pc |-> "loop", idx |-> i + 1]

\* the tail of PullArtifacts: an error iff a component failed
pullArtifactsReturn(res) ==
  IF res.FailedCount > 0 THEN "failedToPull" ELSE Nil

----------------------------------------------------------------------------
(* Mirror: options, target references and the push loop *)

\* strings.TrimSpace
RECURSIVE TrimSpace(_)
TrimSpace(s) ==
  IF s = EmptyStr THEN s
  ELSE IF Head(s) = " " THEN TrimSpace(Tail(s))
  ELSE IF s[Len(s)] = " " THEN TrimSpace(SubSeq(s, 1, Len(s) - 1))
  ELSE s

\* pull's RunE: the pull options built from --images, --models, --charts
pullCmdPullOptions(f) ==
  LET filtersSpecified == f.images \/ f.models \/ f.charts
  IN [IncludeImages |-> ~filtersSpecified \/ f.images,
      IncludeModels |-> ~filtersSpecified \/ f.models,
      IncludeCharts |-> ~filtersSpecified \/ f.charts]

\* a normalization whose default is the images alone
NormalizePullOptions_ImagesOnly(opts) ==
  IF ~opts.IncludeImages /\ ~opts.IncludeModels /\ ~opts.IncludeCharts
  THEN [IncludeImages |-> TRUE, IncludeModels |-> FALSE, IncludeCharts |-> FALSE]
  ELSE opts

\* NormalizePullOptions: no category selected means every category
NormalizePullOptions(opts) ==
  IF ~opts.IncludeImages /\ ~opts.IncludeModels /\ ~opts.IncludeCharts
  THEN [IncludeImages |-> TRUE, IncludeModels |-> TRUE, IncludeCharts |-> TRUE]
  ELSE opts

NormalizeMirrorOptions(opts) ==
  IF ~opts.IncludeImages /\ ~opts.IncludeModels /\ ~opts.IncludeCharts
  THEN [IncludeImages |-> TRUE, IncludeModels |-> TRUE, IncludeCharts |-> TRUE]
  ELSE opts

MirrorOptionsFromPull(opts) ==
  [IncludeImages |-> opts.IncludeImages, IncludeModels |-> opts.IncludeModels,
   IncludeCharts |-> opts.IncludeCharts]

\* a check that is content with both sources given
exactlyOneSource_AtLeastOne(f) == f.url # EmptyStr \/ f.file # EmptyStr

\* RunE of pull and of mirror: exactly one of --url and --file is set
exactlyOneSource(f) ==
  ~((f.url = EmptyStr /\ f.file = EmptyStr) \/ (f.url # EmptyStr /\ f.file # EmptyStr))

\* mirror's RunE: the pull options built from --images, --models, --charts
mirrorPullOptions(f) ==
  IF f.images \/ f.models \/ f.charts
  THEN [IncludeImages |-> f.images, IncludeModels |-> f.models,
        IncludeCharts |-> f.charts]
  ELSE [IncludeImages |-> TRUE, IncludeModels |-> FALSE, IncludeCharts |-> FALSE]

\* a cleanup that looks at --keep-cache only
mirrorCleanup_KeepCacheOnly(f) == ~f.keepCache

\* mirror's RunE: whether the cache directory is removed when RunE returns
mirrorCleanup(f) ==
  IF f.cacheDir # EmptyStr THEN FALSE ELSE ~f.keepCache

NoDir == [exists |-> FALSE, temp |-> FALSE, files |-> {}]

\* the deferred os.RemoveAll(cacheDir), run when RunE returns
runDeferred(cl, dir) == IF cl THEN NoDir ELSE dir

\* a count that takes every artifact of the manifest
totalArtifacts_IgnoreOptions(m, options) ==
  Len(m.Images) + Len(m.Models) + Len(m.Charts)

\* processManifest: the number of artifacts of the selected categories
totalArtifacts(m, options) ==
  (IF options.IncludeImages THEN Len(m.Images) ELSE 0)
  + (IF options.IncludeModels THEN Len(m.Models) ELSE 0)
  + (IF options.IncludeCharts THEN Len(m.Charts) ELSE 0)

\* the components of the selected categories
filterComponents(comps, options) ==
  SelectSeq(comps, LAMBDA c :
    \/ (c.Type = "containerImage" /\ options.IncludeImages)
    \/ (c.Type = "helmChart" /\ options.IncludeCharts)
    \/ (c.Type \notin {"containerImage", "helmChart"} /\ options.IncludeModels))

\* a pull that meets no failure
PullOk == [kc |-> NoKeychain, io |-> "ok"]

\* PullArtifacts with options: the selected components are pulled one after
\* the other, a failure does not stop the batch, and the call fails when a
\* component failed; `failed` are the positions whose pull fails
PullArtifactsWithOptions(w, m, options, failed) ==
  LET comps == filterComponents(convertManifestToComponents(m), options)
  IN [files |-> { pullSingleArtifact(w, comps[i], PullOk).file :
                    i \in (1..Len(comps)) \ failed },
      err |-> IF failed \cap (1..Len(comps)) # {} THEN "failedToPull" ELSE Nil]

\* RetagAndPushImage: err and the target reference it pushes to
RetagAndPushImage(image, files, targetRegistry) ==
  LET imagePath == TrimPrefix(image, OciPrefix)
      parts == Split(imagePath, "/")
      last == parts[Len(parts)]
      colon == Index(last, ":")
      imageName == SubSeq(last, 1, colon - 1)
      imageTag == SubSeq(last, colon + 1, Len(last))
      isECR == Contains(targetRegistry, "amazonaws.com")
  IN IF ~HasPrefix(image, OciPrefix)
     THEN [err |-> "invalidURI", target |-> EmptyStr]
     ELSE IF colon = 0
     THEN [err |-> "invalidFormat", target |-> EmptyStr]
     ELSE IF (imageName \o <<".tar">>) \notin files
     THEN [err |-> "fileNotFound", target |-> EmptyStr]
     ELSE IF isECR
     THEN [err |-> Nil,
           target |-> targetRegistry \o <<":">> \o imageName \o <<"-">> \o imageTag]
     ELSE [err |-> Nil,
           target |-> targetRegistry \o <<"/", "images", "/">> \o imageName
                        \o <<":">> \o imageTag]

\* a target repository that keeps the last element of the path only
buildTargetRepository_NameOnly(targetRegistry, originalRepo) ==
  LET trimmedTarget == TrimSuffix(targetRegistry, <<"/">>)
      slash == LastIndex(originalRepo, "/")
      remainder == IF slash # 0 THEN SubSeq(originalRepo, slash + 1, Len(originalRepo))
                   ELSE EmptyStr
  IN IF remainder = EmptyStr THEN trimmedTarget
     ELSE trimmedTarget \o <<"/">> \o remainder

buildTargetRepository(targetRegistry, originalRepo) ==
  LET trimmedTarget == TrimSuffix(targetRegistry, <<"/">>)
      slash == Index(originalRepo, "/")
      remainder == IF slash # 0 THEN SubSeq(originalRepo, slash + 1, Len(originalRepo))
                   ELSE EmptyStr
  IN IF remainder = EmptyStr THEN trimmedTarget
     ELSE trimmedTarget \o <<"/">> \o remainder

assembleTargetReference(targetRepo, tagOrDigest) ==
  IF HasPrefix(tagOrDigest, <<"sha256", ":">>)
  THEN targetRepo \o <<"@">> \o tagOrDigest
  ELSE targetRepo \o <<":">> \o tagOrDigest

\* pushImageFromTar: err and the state it leaves; the target's credential
\* is asked of the dynactl keychain when the push request is made
pushImageFromTar(w, files, tarPath, targetRef, io) ==
  IF tarPath \notin files \/ io = "tarErr"
  THEN [w |-> w, err |-> "readArchive"]
  ELSE [w |-> dynactlKeychainResolve(w, registryOf(targetRef), NoKeychain, "ok").w,
        err |-> IF io = "pushErr" THEN "push" ELSE Nil]

\* the body of the loop of mirrorContainerImages for one image
pushOneImage(w, imageRef, files, targetRegistry, io) ==
  LET componentRef == TrimPrefix(imageRef, OciPrefix)
      sp == splitRepositoryAndReference(componentRef)
      imageName == extractNameFromURI(componentRef)
      tarPath == imageName \o <<".tar">>
      targetRepo == buildTargetRepository(targetRegistry, sp.repo)
      targetRef == assembleTargetReference(targetRepo, sp.ref)
      r == pushImageFromTar(w, files, tarPath, targetRef, io)
  IN IF sp.repo = EmptyStr
     THEN [w |-> w, err |-> "invalidRef", target |-> EmptyStr]
     ELSE IF sp.ref = EmptyStr
     THEN [w |-> w, err |-> "missingRef", target |-> EmptyStr]
     ELSE [w |-> r.w, err |-> r.err, target |-> targetRef]

\* a loop that goes on to the next image after a failed push
nextPush_ContinueOnError(i, n, err) ==
  IF i >= n THEN [pc |-> "returned", idx |-> i]
  ELSE [pc |-> "push", idx |-> i + 1]

\* the range loop of mirrorContainerImages: return at the first error, go on
\* to the next image otherwise, until the list is exhausted
nextPush(i, n, err) ==
  IF err # Nil \/ i >= n THEN [pc |-> "returned", idx |-> i]
  ELSE [pc |-> "push", idx |-> i + 1]

----------------------------------------------------------------------------
(* The credential subsystem as a state machine *)

NoOp ==
  [op |-> "none", registry |-> EmptyStr, args |-> ZeroArgs,
   cred |-> ZeroRegistryCredential, out |-> EmptyCredential, ok |-> FALSE,
   err |-> Nil, kc |-> NoKeychain, env |-> "ok", auth |-> AnonymousAuth]

SetWorld(w) ==
  /\ credentialStoreOnce' = w.once
  /\ cachedCredentialStore' = w.cached
  /\ credentialStoreErr' = w.cerr
  /\ storeFile' = w.file

\* the store file before the first call: absent, or present with any mode
\* and any content
InitFiles ==
  {AbsentFile}
  \cup [exists : {TRUE}, mode : ModeSamples,
        content : {ContentNilMap, ContentGarbage} \cup {ContentMap(m) : m \in CredMaps}]

\* the invocations of `registry login` that run at the same time
Procs == {1, 2}

\* the host each of them logs in to
LoginHost == << <<"r1">>, <<"r2">> >>

\* no concurrent logins are running
LoginsOff ==
  procs = [p \in Procs |->
            [pc |-> "off", registry |-> EmptyStr, cred |-> ZeroRegistryCredential,
             store |-> NilStore, after |-> {}]]

\* no function is applied outside a command run
FnOff ==
  /\ fnOp = "off"
  /\ fnIn = <<>>
  /\ fnOut = <<>>

\* no mirror is running
MirrorOff ==
  /\ mirrorFlags = [url |-> EmptyStr, file |-> EmptyStr, targetRegistry |-> EmptyStr,
                    cacheDir |-> EmptyStr, keepCache |-> FALSE, images |-> FALSE,
                    models |-> FALSE, charts |-> FALSE]
  /\ mirrorPc = "off"
  /\ cleanup = FALSE
  /\ cacheDir = NoDir
  /\ pulled = {}
  /\ pushIdx = 0
  /\ pushes = <<>>
  /\ pushed = {}
  /\ mirrorErr = Nil

\* no pull is running
PullOff ==
  /\ manifest = EmptyManifest
  /\ components = <<>>
  /\ pc = "off"
  /\ idx = 0
  /\ result = newPullResult(<<>>)
  /\ attempts = <<>>
  /\ retErr = Nil
  /\ lastReq = [req |-> NoReq, kc |-> NoKeychain]
  /\ outputDir = {}

InitCred ==
  /\ PullOff
  /\ MirrorOff
  /\ credentialStoreOnce = FALSE
  /\ cachedCredentialStore = NilStore
  /\ credentialStoreErr = Nil
  /\ storeFile \in InitFiles
  /\ lastOp = NoOp
  /\ FnOff
  /\ LoginsOff

\* a new invocation of the tool: package variables start from their zero values
NewProcess ==
  /\ credentialStoreOnce' = FALSE
  /\ cachedCredentialStore' = NilStore
  /\ credentialStoreErr' = Nil
  /\ UNCHANGED storeFile
  /\ lastOp' = [NoOp EXCEPT !.op = "start"]
  /\ UNCHANGED <<pullVars, mirrorVars, fnVars, procs>>

Save ==
  \E registry \in SaveHosts, cred \in CredSamples, env \in EnvOutcomes :
    LET r == SaveRegistryCredential(World, registry, cred, env)
    IN /\ SetWorld(r.w)
       /\ UNCHANGED <<pullVars, mirrorVars, fnVars, procs>>
       /\ lastOp' = [NoOp EXCEPT !.op = "save", !.registry = registry,
                                 !.cred = cred, !.err = r.err, !.env = env]

Get ==
  \E registry \in Hosts, env \in {"ok", "homeErr", "readErr"} :
    LET r == GetRegistryCredential(World, registry, env)
    IN /\ SetWorld(r.w)
       /\ UNCHANGED <<pullVars, mirrorVars, fnVars, procs>>
       /\ lastOp' = [NoOp EXCEPT !.op = "get", !.registry = registry,
                                 !.cred = r.cred, !.ok = r.ok, !.err = r.err,
                                 !.env = env]

Resolve ==
  \E registry \in Hosts, kc \in KeychainOutcomes, env \in {"ok", "readErr"} :
    LET r == resolveRegistryCredential(World, registry, kc, env)
    IN /\ SetWorld(r.w)
       /\ UNCHANGED <<pullVars, mirrorVars, fnVars, procs>>
       /\ lastOp' = [NoOp EXCEPT !.op = "resolve", !.registry = registry,
                                 !.out = r.cred, !.err = r.err, !.kc = kc,
                                 !.env = env]

KeychainResolve ==
  \E registry \in Hosts, kc \in KeychainSamples, env \in {"ok", "readErr"} :
    LET r == dynactlKeychainResolve(World, registry, kc, env)
    IN /\ SetWorld(r.w)
       /\ UNCHANGED <<pullVars, mirrorVars, fnVars, procs>>
       /\ lastOp' = [NoOp EXCEPT !.op = "keychain", !.registry = registry,
                                 !.auth = r.auth, !.kc = kc, !.env = env]

Login ==
  \E registry \in SaveHosts, a \in LoginArgs, env \in {"ok", "writeErr"} :
    LET r == loginCmdRunE(World, registry, a, env)
    IN /\ SetWorld(r.w)
       /\ UNCHANGED <<pullVars, mirrorVars, fnVars, procs>>
       /\ lastOp' = [NoOp EXCEPT !.op = "login", !.registry = registry,
                                 !.args = a, !.cred = r.cred, !.err = r.err,
                                 !.env = env]

NextCred == NewProcess \/ Save \/ Get \/ Resolve \/ KeychainResolve \/ Login

SpecCred == InitCred /\ [][NextCred]_vars

----------------------------------------------------------------------------
(* The pull command as a state machine *)

\* manifest references `pull --url` is given
ManifestRefSamples == { <<"r1", "/", "cust", "/", "manifest", ":", "3.22.2">> }

\* the store file a pull starts with: absent, holding an entry for r1, or
\* unparsable
PullInitFiles ==
  { AbsentFile,
    [exists |-> TRUE, mode |-> OwnerOnly,
     content |-> ContentMap([h \in {<<"r1">>} |->
                   [Username |-> <<"u">>, Password |-> <<"p">>,
                    IdentityToken |-> EmptyStr, AccessToken |-> EmptyStr]])],
    [exists |-> TRUE, mode |-> OwnerOnly, content |-> ContentGarbage] }

\* the command lines of pull: --url and --file given or not, no filter
PullFlagSamples ==
  [url : {EmptyStr} \cup ManifestRefSamples,
   file : {EmptyStr, <<"m.json">>},
   targetRegistry : {EmptyStr}, cacheDir : {EmptyStr}, keepCache : {FALSE},
   images : {FALSE}, models : {FALSE}, charts : {FALSE}]

InitPull ==
  /\ credentialStoreOnce = FALSE
  /\ cachedCredentialStore = NilStore
  /\ credentialStoreErr = Nil
  /\ storeFile \in PullInitFiles
  /\ lastOp = NoOp
  /\ FnOff
  /\ LoginsOff
  /\ manifest \in Manifests
  /\ components = <<>>
  /\ pc = "start"
  /\ idx = 0
  /\ result = newPullResult(<<>>)
  /\ attempts = <<>>
  /\ retErr = Nil
  /\ lastReq = [req |-> NoReq, kc |-> NoKeychain]
  /\ outputDir = {}
  /\ mirrorFlags \in PullFlagSamples
  /\ mirrorPc = "off"
  /\ cleanup = FALSE
  /\ cacheDir = NoDir
  /\ pulled = {}
  /\ pushIdx = 0
  /\ pushes = <<>>
  /\ pushed = {}
  /\ mirrorErr = Nil

\* pull's RunE: the check of --url and --file
PullStart ==
  /\ pc = "start"
  /\ IF exactlyOneSource(mirrorFlags)
     THEN pc' = "prepare" /\ retErr' = retErr
     ELSE pc' = "aborted" /\ retErr' = "sourceFlags"
  /\ UNCHANGED <<credVars, lastOp, manifest, components, idx, result, attempts,
                 lastReq, outputDir>>
  /\ UNCHANGED <<mirrorVars, fnVars, procs>>

\* prepareManifest with --file: the manifest is read from the given path
PrepareManifestFile ==
  /\ pc = "prepare"
  /\ mirrorFlags.url = EmptyStr
  /\ pc' = "idle"
  /\ UNCHANGED <<credVars, lastOp, manifest, components, idx, result, attempts,
                 retErr, lastReq, outputDir>>
  /\ UNCHANGED <<mirrorVars, fnVars, procs>>

\* prepareManifest with --url: the manifest is pulled from the registry first
PrepareManifestURL ==
  /\ pc = "prepare"
  /\ mirrorFlags.url # EmptyStr
  /\ \E o \in PullOracles :
       LET r == PullManifestFromRegistry(World, mirrorFlags.url, o)
       IN /\ SetWorld(r.w)
          /\ lastReq' = [req |-> r.req, kc |-> o.kc]
          /\ pc' = IF r.err # Nil THEN "aborted" ELSE "idle"
          /\ outputDir' = IF r.file # NoFile THEN outputDir \cup {r.file} ELSE outputDir
  /\ UNCHANGED <<lastOp, manifest, components, idx, result, attempts, retErr>>
  /\ UNCHANGED <<mirrorVars, fnVars, procs>>

\* PullArtifacts up to the call of pullAllArtifacts and the initialisation of
\* its result
PullArtifactsBegin ==
  /\ pc = "idle"
  /\ components' = convertManifestToComponents(manifest)
  /\ \E mkdirOk \in BOOLEAN :
       IF mkdirOk
       THEN /\ result' = newPullResult(components')
            /\ idx' = 1
            /\ pc' = IF Len(components') = 0 THEN "summary" ELSE "loop"
            /\ retErr' = retErr
       ELSE /\ retErr' = "mkdir"
            /\ pc' = "done"
            /\ UNCHANGED <<result, idx>>
  /\ UNCHANGED <<credVars, lastOp, manifest, attempts, lastReq, outputDir>>
  /\ UNCHANGED <<mirrorVars, fnVars, procs>>

\* one iteration of the loop of pullAllArtifacts
PullNext ==
  /\ pc = "loop"
  /\ \E o \in PullOracles :
       LET component == components[idx]
           r == pullSingleArtifact(World, component, o)
           nx == nextPull(idx, Len(components), r.err)
       IN /\ SetWorld(r.w)
          /\ result' = recordPull(result, component, r.err)
          /\ attempts' = Append(attempts, [i |-> idx, err |-> r.err])
          /\ lastReq' = [req |-> r.req, kc |-> o.kc]
          /\ outputDir' = IF r.file # NoFile THEN outputDir \cup {r.file} ELSE outputDir
          /\ pc' = nx.pc
          /\ idx' = nx.idx
  /\ UNCHANGED <<lastOp, manifest, components, retErr>>
  /\ UNCHANGED <<mirrorVars, fnVars, procs>>

\* PullArtifacts from the return of pullAllArtifacts to its own return
PullArtifactsEnd ==
  /\ pc = "summary"
  /\ retErr' = pullArtifactsReturn(result)
  /\ pc' = "done"
  /\ UNCHANGED <<credVars, lastOp, manifest, components, idx, result, attempts,
                 lastReq, outputDir>>
  /\ UNCHANGED <<mirrorVars, fnVars, procs>>

NextPull ==
  \/ PullStart
  \/ PrepareManifestFile \/ PrepareManifestURL
  \/ PullArtifactsBegin \/ PullNext \/ PullArtifactsEnd

SpecPull == InitPull /\ [][NextPull]_vars

----------------------------------------------------------------------------
(* The mirror command as a state machine *)

\* the command lines mirror is run with
MirrorFlagSamples ==
  [url : {EmptyStr} \cup ManifestRefSamples,
   file : {EmptyStr, <<"m.json">>, <<"testdata", "/", "m.json">>},
   targetRegistry : {EmptyStr, <<"t1", "/">>},
   cacheDir : {EmptyStr, <<"cache">>},
   keepCache : BOOLEAN,
   images : BOOLEAN, models : BOOLEAN, charts : BOOLEAN]

\* what the environment does to the pull of the manifest
MirrorOracles == { o \in PullOracles : o.kc = NoKeychain }

InitMirror ==
  /\ credentialStoreOnce = FALSE
  /\ cachedCredentialStore = NilStore
  /\ credentialStoreErr = Nil
  /\ storeFile = AbsentFile
  /\ lastOp = NoOp
  /\ FnOff
  /\ LoginsOff
  /\ manifest \in Manifests
  /\ components = <<>>
  /\ pc = "off"
  /\ idx = 0
  /\ result = newPullResult(<<>>)
  /\ attempts = <<>>
  /\ retErr = Nil
  /\ lastReq = [req |-> NoReq, kc |-> NoKeychain]
  /\ outputDir = {}
  /\ mirrorFlags \in MirrorFlagSamples
  /\ mirrorPc = "start"
  /\ cleanup = FALSE
  /\ cacheDir = NoDir
  /\ pulled = {}
  /\ pushIdx = 0
  /\ pushes = <<>>
  /\ pushed = {}
  /\ mirrorErr = Nil

\* RunE returns err: the deferred cleanup runs on the directory as it is
MirrorReturn(err, dir) ==
  /\ mirrorPc' = "returned"
  /\ mirrorErr' = err
  /\ cacheDir' = runDeferred(cleanup, dir)

\* mirror's RunE: the checks of the flags and the creation of the cache
\* directory
MirrorStart ==
  /\ mirrorPc = "start"
  /\ LET f == mirrorFlags
     IN IF ~exactlyOneSource(f)
        THEN /\ MirrorReturn("sourceFlags", cacheDir) /\ cleanup' = FALSE
        ELSE IF f.targetRegistry = EmptyStr
        THEN /\ MirrorReturn("targetRequired", cacheDir) /\ cleanup' = FALSE
        ELSE \E mkOk \in BOOLEAN :
               IF ~mkOk
               THEN /\ MirrorReturn("createCache", cacheDir) /\ cleanup' = FALSE
               ELSE /\ cacheDir' = [exists |-> TRUE, temp |-> f.cacheDir = EmptyStr,
                                    files |-> {}]
                    /\ cleanup' = mirrorCleanup(f)
                    /\ mirrorPc' = "prepare"
                    /\ mirrorErr' = mirrorErr
  /\ UNCHANGED <<credVars, lastOp, pullVars, fnVars, procs, mirrorFlags, pulled, pushIdx, pushes,
                 pushed>>

\* mirror's RunE: prepareManifest
MirrorPrepareManifest ==
  /\ mirrorPc = "prepare"
  /\ IF mirrorFlags.url # EmptyStr
     THEN \E o \in MirrorOracles :
            LET r == PullManifestFromRegistry(World, mirrorFlags.url, o)
            IN /\ SetWorld(r.w)
               /\ IF r.err # Nil
                  THEN MirrorReturn("pullManifest", cacheDir)
                  ELSE /\ cacheDir' = [cacheDir EXCEPT !.files = @ \cup {r.file}]
                       /\ mirrorPc' = "process"
                       /\ mirrorErr' = mirrorErr
     ELSE /\ mirrorPc' = "process"
          /\ UNCHANGED <<credVars, cacheDir, mirrorErr>>
  /\ UNCHANGED <<lastOp, pullVars, fnVars, procs, mirrorFlags, cleanup, pulled, pushIdx, pushes,
                 pushed>>

\* prepareManifest: the path of the manifest file, --file as given or the
\* manifest pulled into the cache directory, which is --cache-dir or a new
\* temporary directory
manifestPathOf(f) ==
  IF f.url # EmptyStr
  THEN (IF f.cacheDir # EmptyStr THEN f.cacheDir ELSE <<"tmp", "/", "dynactl-mirror-">>)
         \o <<"/", "manifest.json">>
  ELSE f.file

\* mirror's RunE: processManifest, which loads the manifest and pulls the
\* selected artifacts into the cache directory
MirrorProcessManifest ==
  /\ mirrorPc = "process"
  /\ LET options == NormalizePullOptions(mirrorPullOptions(mirrorFlags))
         n == totalArtifacts(manifest, options)
     IN \/ \* LoadManifest fails
           /\ MirrorReturn("loadManifest", cacheDir) /\ pulled' = pulled
        \/ \* nothing selected: an error unless the path contains "testdata"
           /\ n = 0
           /\ IF Contains(manifestPathOf(mirrorFlags), "testdata")
              THEN /\ mirrorPc' = "mirror"
                   /\ UNCHANGED <<cacheDir, mirrorErr, pulled>>
              ELSE /\ MirrorReturn("noArtifacts", cacheDir) /\ pulled' = pulled
        \/ \* the selected artifacts are pulled into the cache directory
           /\ n > 0
           /\ \E failed \in SUBSET (1..n) :
                LET r == PullArtifactsWithOptions(World, manifest, options, failed)
                    dir == [cacheDir EXCEPT !.files = @ \cup r.files]
                IN /\ pulled' = r.files
                   /\ IF r.err # Nil
                      THEN MirrorReturn("pullArtifacts", dir)
                      ELSE /\ cacheDir' = dir
                           /\ mirrorPc' = "mirror"
                           /\ mirrorErr' = mirrorErr
  /\ UNCHANGED <<credVars, lastOp, pullVars, fnVars, procs, mirrorFlags, cleanup, pushIdx, pushes,
                 pushed>>

\* a MirrorArtifacts that refuses nothing but an empty target
mirrorArtifactsCheck_TargetOnly(m, targetRegistry, options) ==
  IF targetRegistry = EmptyStr THEN "emptyTarget" ELSE Nil

\* MirrorArtifacts: the error it returns before it mirrors anything, if any
mirrorArtifactsCheck(m, targetRegistry, options) ==
  IF targetRegistry = EmptyStr THEN "emptyTarget"
  ELSE IF options.IncludeModels /\ Len(m.Models) > 0 THEN "modelsNotSupported"
  ELSE IF options.IncludeCharts /\ Len(m.Charts) > 0 THEN "chartsNotSupported"
  ELSE Nil

\* MirrorArtifacts up to the call of mirrorContainerImages
MirrorArtifactsBegin ==
  /\ mirrorPc = "mirror"
  /\ LET options == NormalizeMirrorOptions(
                      MirrorOptionsFromPull(mirrorPullOptions(mirrorFlags)))
         targetRegistry == TrimSuffix(TrimSpace(mirrorFlags.targetRegistry), <<"/">>)
     IN IF mirrorArtifactsCheck(manifest, targetRegistry, options) # Nil
        THEN /\ MirrorReturn(mirrorArtifactsCheck(manifest, targetRegistry, options),
                             cacheDir)
             /\ pushIdx' = pushIdx
        ELSE IF options.IncludeImages /\ Len(manifest.Images) > 0
        THEN /\ mirrorPc' = "push"
             /\ pushIdx' = 1
             /\ UNCHANGED <<cacheDir, mirrorErr>>
        ELSE MirrorReturn(Nil, cacheDir) /\ pushIdx' = pushIdx
  /\ UNCHANGED <<credVars, lastOp, pullVars, fnVars, procs, mirrorFlags, cleanup, pulled, pushes,
                 pushed>>

\* one iteration of the loop of mirrorContainerImages, and the return of
\* MirrorArtifacts and of RunE when the loop ends
MirrorPushNext ==
  /\ mirrorPc = "push"
  /\ \E io \in {"ok", "tarErr", "pushErr"} :
       LET targetRegistry == TrimSuffix(TrimSpace(mirrorFlags.targetRegistry), <<"/">>)
           r == pushOneImage(World, manifest.Images[pushIdx], cacheDir.files,
                             targetRegistry, io)
           nx == nextPush(pushIdx, Len(manifest.Images), r.err)
       IN /\ SetWorld(r.w)
          /\ pushes' = Append(pushes, [i |-> pushIdx, target |-> r.target, err |-> r.err])
          /\ pushed' = IF r.err = Nil THEN pushed \cup {r.target} ELSE pushed
          /\ pushIdx' = nx.idx
          /\ IF nx.pc = "returned"
             THEN MirrorReturn(r.err, cacheDir)
             ELSE /\ mirrorPc' = nx.pc
                  /\ UNCHANGED <<cacheDir, mirrorErr>>
  /\ UNCHANGED <<lastOp, pullVars, fnVars, procs, mirrorFlags, cleanup, pulled>>

NextMirror ==
  \/ MirrorStart \/ MirrorPrepareManifest \/ MirrorProcessManifest
  \/ MirrorArtifactsBegin \/ MirrorPushNext

SpecMirror == InitMirror /\ [][NextMirror]_vars

\* a run of either command
SpecCommands == (InitPull \/ InitMirror) /\ [][NextPull \/ NextMirror]_vars

----------------------------------------------------------------------------
(* Claims about the credential subsystem, checked under SpecCred *)

\* the default keychain yields a non-empty credential for this lookup
KeychainYields(kc) ==
  /\ kc.kind = "cfg"
  /\ \/ kc.cfg.Username # EmptyStr \/ kc.cfg.Password # EmptyStr
     \/ kc.cfg.IdentityToken # EmptyStr \/ kc.cfg.RegistryToken # EmptyStr

KeychainCredential(kc) ==
  [Username |-> kc.cfg.Username, Password |-> kc.cfg.Password,
   RefreshToken |-> kc.cfg.IdentityToken, AccessToken |-> kc.cfg.RegistryToken]

\* the dynactl store, as this process sees it, holds an entry for the host
StoreHasEntry(host) ==
  /\ ~cachedCredentialStore.isNil
  /\ credentialStoreErr = Nil
  /\ host \in DOMAIN cachedCredentialStore.Credentials

\* the store file on disk holds an entry for the host
FileHasEntry(host) ==
  /\ storeFile.exists
  /\ storeFile.content.kind = "map"
  /\ host \in DOMAIN storeFile.content.creds

\* C5: resolveRegistryCredential(host) returns the default-keychain
\* credential whenever the keychain yields a non-empty one; otherwise the
\* store entry keyed by the exact host, if one exists; otherwise the
\* anonymous credential, without failing.  A keychain error counts as "not
\* found".
C5_ResolvePrecedence ==
  (lastOp.op = "resolve" /\ lastOp.registry # EmptyStr) =>
    IF KeychainYields(lastOp.kc)
    THEN lastOp.err = Nil /\ lastOp.out = KeychainCredential(lastOp.kc)
    ELSE IF StoreHasEntry(lastOp.registry)
    THEN /\ lastOp.err = Nil
         /\ lastOp.out = convertStoredCredential(
                           cachedCredentialStore.Credentials[lastOp.registry])
    ELSE lastOp.err = Nil /\ lastOp.out = EmptyCredential

\* C6: Resolve of a host with no keychain entry and no store entry returns
\* the anonymous credential and never an error, in every state of the store
\* file and for every host string (checked here for the non-empty ones).
C6_ResolveMissNeverFails ==
  (/\ lastOp.op = "resolve"
   /\ lastOp.registry # EmptyStr
   /\ ~KeychainYields(lastOp.kc)
   /\ ~StoreHasEntry(lastOp.registry)
   /\ ~FileHasEntry(lastOp.registry)) =>
    (lastOp.err = Nil /\ lastOp.out = EmptyCredential)

\* C8: a credential counts as resolved only if one of password, identity
\* token and access token is non-empty: resolution never returns a
\* credential that carries no secret as a found credential.
C8_ResolvedHasSecret ==
  /\ (lastOp.op = "resolve" /\ lastOp.err = Nil /\ lastOp.out # EmptyCredential) =>
       \/ lastOp.out.Password # EmptyStr
       \/ lastOp.out.RefreshToken # EmptyStr
       \/ lastOp.out.AccessToken # EmptyStr
  /\ (lastOp.op = "keychain" /\ lastOp.auth.kind = "config") =>
       \/ lastOp.auth.cfg.Password # EmptyStr
       \/ lastOp.auth.cfg.IdentityToken # EmptyStr
       \/ lastOp.auth.cfg.RegistryToken # EmptyStr

\* the inputs of a login that must fail validation
InvalidLogin(a) ==
  \/ a.passwordStdin /\ a.password # EmptyStr
  \/ loginPassword(a) # EmptyStr /\ a.username = EmptyStr
  \/ loginPassword(a) = EmptyStr /\ a.identityToken = EmptyStr /\ a.accessToken = EmptyStr

\* C9: a `registry login` whose inputs fail validation returns an error and
\* leaves the credential store, in memory and on disk, as it was.
C9_InvalidLoginPersistsNothing ==
  [][(lastOp'.op = "login" /\ InvalidLogin(lastOp'.args)) =>
       (lastOp'.err # Nil /\ UNCHANGED credVars)]_vars

\* a login with both --password-stdin and --password failed validation while
\* the store file held an entry
C9_Witness ==
  /\ lastOp.op = "login"
  /\ lastOp.args.passwordStdin /\ lastOp.args.password # EmptyStr
  /\ lastOp.err # Nil
  /\ FileHasEntry(<<"r1">>)

\* C10: after a SaveRegistryCredential call that succeeded, from any
\* initial state of the store file, the file has no permission bit outside
\* owner read/write.
C10_StoreFileOwnerOnly ==
  (lastOp.op \in {"save", "login"} /\ lastOp.err = Nil) =>
    (storeFile.exists /\ storeFile.mode \subseteq OwnerOnly)

----------------------------------------------------------------------------
(* Claims about the pull command, checked under SpecPull *)

\* a pullSingleArtifact call made so far failed
SomeAttemptFailed == \E k \in 1..Len(attempts) : attempts[k].err # Nil

\* the calls made so far are for components 1, 2, ... in that order
AttemptsInListOrder == \A k \in 1..Len(attempts) : attempts[k].i = k

\* C1 as stated: every component is attempted exactly once, in list order,
\* whatever the earlier outcomes, and PullArtifacts returns an error if and
\* only if a component failed, after all components were attempted.
C1_AsStated ==
  /\ AttemptsInListOrder
  /\ pc = "done" =>
       /\ Len(attempts) = Len(components)
       /\ (retErr # Nil) <=> SomeAttemptFailed

\* C1 (amended): once the output directory has been created, every component
\* is attempted exactly once, in list order, whatever the earlier outcomes,
\* and PullArtifacts then returns an error if and only if a component
\* failed; when the directory cannot be created it returns an error without
\* attempting any component.
C1_PullAttemptsAll ==
  /\ AttemptsInListOrder
  /\ (pc = "done" /\ retErr # "mkdir") =>
       /\ Len(attempts) = Len(components)
       /\ (retErr # Nil) <=> SomeAttemptFailed
  /\ (pc = "done" /\ retErr = "mkdir") => attempts = <<>>

\* PullArtifacts returned after a failed first component and a successful
\* second one
C1_Witness ==
  /\ pc = "done"
  /\ Len(attempts) >= 2
  /\ attempts[1].err # Nil
  /\ attempts[2].err = Nil
  /\ retErr = "failedToPull"

\* the names of the components whose pull failed, in the order of the calls
RECURSIVE FailedNames(_)
FailedNames(as) ==
  IF as = <<>> THEN <<>>
  ELSE IF as[1].err # Nil
  THEN <<components[as[1].i].Name>> \o FailedNames(Tail(as))
  ELSE FailedNames(Tail(as))

\* C2: the PullResult pullAllArtifacts returns has TotalArtifacts = number
\* of components, SuccessCount + FailedCount = TotalArtifacts, and exactly
\* one Errors entry per failed component, in component order.
C2_PullResultCounts ==
  (pc \in {"summary", "done"} /\ retErr # "mkdir") =>
    /\ result.TotalArtifacts = Len(components)
    /\ result.SuccessCount + result.FailedCount = result.TotalArtifacts
    /\ Len(result.Errors) = result.FailedCount
    /\ [k \in 1..Len(result.Errors) |-> result.Errors[k].Name] = FailedNames(attempts)
    /\ result.FailedCount = Len(FailedNames(attempts))

\* two images and one chart were pulled, and one image failed
C2_Witness ==
  /\ pc = "done"
  /\ Len(manifest.Images) = 2 /\ Len(manifest.Models) = 0 /\ Len(manifest.Charts) = 1
  /\ Len(attempts) = 3
  /\ attempts[1].err # Nil /\ attempts[2].err = Nil /\ attempts[3].err = Nil
  /\ result.TotalArtifacts = 3 /\ result.SuccessCount = 2 /\ result.FailedCount = 1

\* C7: on each of the four pull paths, when the default keychain holds no
\* credential for the registry host and the dynactl store holds one, the
\* request is authenticated with the stored credential.
C7_StoredCredentialOnAllPaths ==
  (/\ lastReq.req.sent
   /\ lastReq.req.path \in {"manifest", "image", "model", "chart"}
   /\ ~KeychainYields(lastReq.kc)
   /\ FileHasEntry(lastReq.req.registry)) =>
    lastReq.req.cred =
      convertStoredCredential(storeFile.content.creds[lastReq.req.registry])

----------------------------------------------------------------------------
(* Claims about the mirror command, checked under SpecMirror *)

\* the last iteration of the push loop failed and RunE has returned
ImageFailed ==
  /\ mirrorPc = "returned"
  /\ pushes # <<>>
  /\ pushes[Len(pushes)].err # Nil

\* the failure was one of pushImageFromTar
PushFailed ==
  /\ ImageFailed
  /\ pushes[Len(pushes)].err \in {"readArchive", "push"}

\* C3: mirror pushes the images in manifest order and halts at the first
\* push failure: no push follows a failed one, mirror returns that push's
\* error, and the pushes made before it stay in the target registry.
C3_MirrorHaltsOnFirstFailure ==
  /\ \A k \in 1..Len(pushes) : pushes[k].i = k
  /\ \A k \in 1..(Len(pushes) - 1) : pushes[k].err = Nil
  /\ \A k \in 1..Len(pushes) : pushes[k].err = Nil => pushes[k].target \in pushed
  /\ ImageFailed => mirrorErr = pushes[Len(pushes)].err
  /\ (mirrorPc = "returned" /\ pushes # <<>> /\ ~ImageFailed) =>
       (Len(pushes) = Len(manifest.Images) /\ mirrorErr = Nil)

\* of three images the first was pushed, the push of the second failed and
\* the third was never attempted
C3_Witness ==
  /\ PushFailed
  /\ Len(manifest.Images) = 3
  /\ Len(pushes) = 2
  /\ pushes[1].err = Nil
  /\ pushes[2].err = "push"
  /\ pushes[1].target \in pushed

\* C4 as stated: after a failed push the cache directory and the files
\* pulled into it exist when the command has returned, whatever --cache-dir
\* and --keep-cache are.
C4_AsStated ==
  PushFailed => (cacheDir.exists /\ pulled \subseteq cacheDir.files)

\* C4 (amended): after a failed push the cache directory and the files
\* pulled into it exist when the command has returned if --cache-dir was
\* given or --keep-cache was set; with neither, the temporary cache
\* directory has been removed.
C4_CacheKeptUnlessTemporary ==
  PushFailed =>
    IF mirrorFlags.cacheDir # EmptyStr \/ mirrorFlags.keepCache
    THEN cacheDir.exists /\ pulled # {} /\ pulled \subseteq cacheDir.files
    ELSE ~cacheDir.exists

\* a push failed in a run with --cache-dir and without --keep-cache, and the
\* pulled image archives are still in the directory
C4_Witness ==
  /\ PushFailed
  /\ pushes[Len(pushes)].err = "push"
  /\ mirrorFlags.cacheDir # EmptyStr
  /\ ~mirrorFlags.keepCache
  /\ cacheDir.exists
  /\ pulled # {}
  /\ pulled \subseteq cacheDir.files

----------------------------------------------------------------------------
(* Claims about the store file during a save, checked under SpecCred *)

\* C11: a save replaces the store file atomically: after every save,
\* failed ones included, the file on disk is either as it was before or
\* holds the complete new credential map, never an empty or partial file.
C11_SaveReplacesAtomically ==
  [][lastOp'.op \in {"save", "login"} =>
       \/ (storeFile'.exists = storeFile.exists
           /\ storeFile'.content = storeFile.content)
       \/ (/\ storeFile'.exists
           /\ storeFile'.content.kind = "map"
           /\ lastOp'.registry \in DOMAIN storeFile'.content.creds
           /\ storeFile'.content.creds[lastOp'.registry] = lastOp'.cred)]_vars

\* what GetRegistryCredential returns to its caller: (cred, ok, err)
Returned(r) == <<r.cred, r.ok, r.err>>

\* C28: a SaveRegistryCredential that returns an error leaves the store of a
\* process that has loaded it unchanged: GetRegistryCredential for that
\* registry returns after the failed save what it returned before it.
C28_FailedSaveLeavesStore ==
  [][(/\ lastOp'.op = "save"
      /\ lastOp'.err # Nil
      /\ credentialStoreOnce) =>
       Returned(GetRegistryCredential(World', lastOp'.registry, "ok"))
         = Returned(GetRegistryCredential(World, lastOp'.registry, "ok"))]_vars

----------------------------------------------------------------------------
(* Claims about normalization, checked under SpecPull *)

\* PullArtifacts has converted the manifest
Converted == pc \in {"loop", "summary", "done"}

\* a URI without its leading oci://
SchemeStripped(uri) ==
  IF Len(uri) >= 4 /\ SubSeq(uri, 1, 4) = <<"oci", ":", "/", "/">>
  THEN SubSeq(uri, 5, Len(uri))
  ELSE uri

\* C12: a manifest with N entries is converted to exactly N components:
\* the images, then the models, then the charts, each group in manifest
\* order, each component with the kind of its group and the entry's URI
\* without a leading oci://.
C12_NormalizeKeepsAllInOrder ==
  Converted =>
    LET nI == Len(manifest.Images)
        nM == Len(manifest.Models)
        nC == Len(manifest.Charts)
    IN /\ Len(components) = nI + nM + nC
       /\ \A i \in 1..nI :
            /\ components[i].Type = "containerImage"
            /\ components[i].URI = SchemeStripped(manifest.Images[i])
       /\ \A i \in 1..nM :
            /\ components[nI + i].Type = "mlModel"
            /\ components[nI + i].URI = SchemeStripped(manifest.Models[i])
       /\ \A i \in 1..nC :
            /\ components[nI + nM + i].Type = "helmChart"
            /\ components[nI + nM + i].URI = SchemeStripped(manifest.Charts[i].HarborPath)

\* a manifest with one image, one model and one chart was converted
C12_Witness ==
  /\ Converted
  /\ Len(manifest.Images) = 1 /\ Len(manifest.Models) = 1 /\ Len(manifest.Charts) = 1
  /\ Len(components) = 3
  /\ components[1].Type = "containerImage"
  /\ components[2].Type = "mlModel"
  /\ components[3].Type = "helmChart"

\* C13: every component produced by normalization, of every kind, has
\* exactly one of Tag and Digest non-empty.
C13_ExactlyOneOfTagAndDigest ==
  Converted =>
    \A i \in 1..Len(components) :
      (components[i].Tag # EmptyStr) # (components[i].Digest # EmptyStr)

\* C13 (amended): no component carries a digest; an image or model
\* component has Tag empty too, its tag staying in the URI, and a chart
\* component has the chart's version as Tag.
C13_TagOnlyOnCharts ==
  Converted =>
    \A i \in 1..Len(components) :
      /\ components[i].Digest = EmptyStr
      /\ components[i].Type \in {"containerImage", "mlModel"} =>
           components[i].Tag = EmptyStr
      /\ components[i].Type = "helmChart" =>
           components[i].Tag =
             manifest.Charts[i - Len(manifest.Images) - Len(manifest.Models)].Version

\* a tagged image and a chart were converted: the image has no Tag although
\* its URI ends in one, the chart has one
C13_Witness ==
  /\ Converted
  /\ Len(components) >= 2
  /\ components[1].Type = "containerImage"
  /\ components[1].Tag = EmptyStr
  /\ Contains(components[1].URI, ":")
  /\ components[Len(components)].Type = "helmChart"
  /\ components[Len(components)].Tag # EmptyStr

----------------------------------------------------------------------------
(* Claims about the pull backends, checked under SpecPull *)

\* the last pullSingleArtifact call was for an image or model component
\* with neither tag nor digest
LastPullWithoutReference ==
  /\ attempts # <<>>
  /\ components[attempts[Len(attempts)].i].Type \in {"containerImage", "mlModel"}
  /\ components[attempts[Len(attempts)].i].Tag = EmptyStr
  /\ components[attempts[Len(attempts)].i].Digest = EmptyStr

----------------------------------------------------------------------------
(* Functions applied on their own: the state machine *)

MaxPathDepth == 2

\* the elements of a path joined with "/", each followed by one
RECURSIVE SlashJoined(_)
SlashJoined(segs) ==
  IF segs = <<>> THEN <<>>
  ELSE <<Head(segs), "/">> \o SlashJoined(Tail(segs))

\* scheme-stripped URIs host[:port]/path/.../name[:tag]
RepositoryURIs ==
  { host \o port \o <<"/">> \o SlashJoined(path) \o name \o tag :
      host \in {<<"r1">>},
      port \in {EmptyStr, <<":", "5000">>},
      path \in SeqsUpTo({"a", "b"}, MaxPathDepth),
      name \in {<<"foo">>, <<"bar">>},
      tag \in {EmptyStr, <<":", "t1">>} }

\* extractNameFromURI applied to a URI
ApplyExtractName ==
  /\ fnOp = "off"
  /\ \E uri \in RepositoryURIs :
       /\ fnOp' = "extractNameFromURI"
       /\ fnIn' = uri
       /\ fnOut' = extractNameFromURI(uri)
  /\ UNCHANGED <<credVars, lastOp, pullVars, mirrorVars, procs>>

OptionValues ==
  [IncludeImages : BOOLEAN, IncludeModels : BOOLEAN, IncludeCharts : BOOLEAN]

\* NormalizePullOptions applied to any PullOptions, and to its own result
ApplyNormalizePull ==
  /\ fnOp = "off"
  /\ \E opts \in OptionValues :
       /\ fnOp' = "NormalizePullOptions"
       /\ fnIn' = opts
       /\ fnOut' = [once |-> NormalizePullOptions(opts),
                    twice |-> NormalizePullOptions(NormalizePullOptions(opts))]
  /\ UNCHANGED <<credVars, lastOp, pullVars, mirrorVars, procs>>

\* pull's RunE and processManifest: the options of a command line, normalized
ApplyPullFlags ==
  /\ fnOp = "off"
  /\ \E f \in [images : BOOLEAN, models : BOOLEAN, charts : BOOLEAN] :
       /\ fnOp' = "pullFlags"
       /\ fnIn' = f
       /\ fnOut' = NormalizePullOptions(pullCmdPullOptions(f))
  /\ UNCHANGED <<credVars, lastOp, pullVars, mirrorVars, procs>>

\* NormalizeMirrorOptions applied to any MirrorOptions
ApplyNormalizeMirror ==
  /\ fnOp = "off"
  /\ \E opts \in OptionValues :
       /\ fnOp' = "NormalizeMirrorOptions"
       /\ fnIn' = opts
       /\ fnOut' = NormalizeMirrorOptions(opts)
  /\ UNCHANGED <<credVars, lastOp, pullVars, mirrorVars, procs>>

\* scheme-stripped URIs with a tag, a digest or neither
ReferenceURIs ==
  RepositoryURIs
  \cup { u \o <<"@", "sha256", ":", "d1">> :
           u \in { v \in RepositoryURIs : v[Len(v)] # "t1" } }

\* --target-registry values: plain hosts, with a trailing "/" and with a
\* path, and hosts of the provider with flat repository names
TargetSamples ==
  { <<"t1">>, <<"t1", "/">>, <<"t1", "/", "mirror">>,
    <<"acct.", "amazonaws.com">>, <<"acct.", "amazonaws.com", "/", "repo">> }

\* MirrorArtifacts and one iteration of mirrorContainerImages, the archive
\* of the image being in the cache and the push succeeding
ApplyMirrorTarget ==
  /\ fnOp = "off"
  /\ \E uri \in ReferenceURIs, target \in TargetSamples :
       LET targetRegistry == TrimSuffix(TrimSpace(target), <<"/">>)
           r == pushOneImage(World, OciPrefix \o uri,
                             {extractNameFromURI(uri) \o <<".tar">>},
                             targetRegistry, "ok")
       IN /\ fnOp' = "mirrorContainerImages"
          /\ fnIn' = [uri |-> uri, targetRegistry |-> target]
          /\ fnOut' = [err |-> r.err, target |-> r.target]
  /\ UNCHANGED <<credVars, lastOp, pullVars, mirrorVars, procs>>

\* RetagAndPushImage, the archive of the image being in the local directory
ApplyRetagTarget ==
  /\ fnOp = "off"
  /\ \E uri \in ReferenceURIs, target \in TargetSamples :
       /\ fnOp' = "RetagAndPushImage"
       /\ fnIn' = [uri |-> uri, targetRegistry |-> target]
       /\ fnOut' = RetagAndPushImage(OciPrefix \o uri,
                                     {n \o <<".tar">> : n \in {<<"foo">>, <<"bar">>}},
                                     target)
  /\ UNCHANGED <<credVars, lastOp, pullVars, mirrorVars, procs>>

----------------------------------------------------------------------------
(* Export and import of the cache directory *)

\* A directory tree is a function from relative paths, sequences of names,
\* to nodes; the root is the empty path and is not in the domain.
FileNode(data) == [kind |-> "file", data |-> data, writable |-> TRUE]

DirNode(writable) == [kind |-> "dir", data |-> EmptyStr, writable |-> writable]

Put(tree, path, node) ==
  [q \in (DOMAIN tree) \cup {path} |-> IF q = path THEN node ELSE tree[q]]

ManifestPath == <<"manifest.json">>

\* json.MarshalIndent of the manifest: the bytes written to manifest.json
MarshalIndent(m) == <<"json", m>>

\* the relative paths a cache directory may hold, in the lexical order in
\* which filepath.Walk visits them
WalkOrder ==
  << <<"a.tar">>, ManifestPath, <<"sub">>, <<"sub", "b.tar">>,
     <<"sub", "deep">>, <<"sub", "deep", "c.tar">> >>

\* the cache directories: at each path nothing, a file with one of two
\* contents, or a directory its owner may or may not write to; manifest.json
\* may be there already, as a file or as a directory
CacheTrees ==
  { [q \in {r \in DOMAIN at : at[r] # "none"} |->
       IF at[q] \in {"rw", "ro"} THEN DirNode(at[q] = "rw") ELSE FileNode(<<at[q]>>)] :
    at \in { at \in [{WalkOrder[i] : i \in 1..Len(WalkOrder)} -> {"none", "x", "y", "rw", "ro"}] :
               /\ at[<<"a.tar">>] \in {"none", "x", "y"}
               /\ at[ManifestPath] \in {"none", "x", "rw"}
               /\ at[<<"sub">>] \in {"none", "rw", "ro"}
               /\ at[<<"sub", "b.tar">>] \in {"none", "x", "y"}
               /\ at[<<"sub", "deep">>] \in {"none", "rw", "ro"}
               /\ at[<<"sub", "deep", "c.tar">>] \in {"none", "x", "y"}
               /\ at[<<"sub">>] = "none" =>
                    (at[<<"sub", "b.tar">>] = "none" /\ at[<<"sub", "deep">>] = "none")
               /\ at[<<"sub", "deep">>] = "none" => at[<<"sub", "deep", "c.tar">>] = "none" } }

\* filepath.Walk over the tree: the tar header and data of one entry per
\* path other than the root
RECURSIVE walkEntries(_, _)
walkEntries(tree, order) ==
  IF order = <<>> THEN <<>>
  ELSE IF Head(order) \in DOMAIN tree
  THEN << [Name |-> Head(order),
            Typeflag |-> IF tree[Head(order)].kind = "dir" THEN "TypeDir" ELSE "TypeReg",
            writable |-> tree[Head(order)].writable,
            data |-> tree[Head(order)].data] >>
       \o walkEntries(tree, Tail(order))
  ELSE walkEntries(tree, Tail(order))

\* ExportArtifacts: err, the cache directory it leaves and the archive
ExportArtifacts(m, tempDir, io) ==
  IF io = "createErr"
  THEN [err |-> "createArchive", tempDir |-> tempDir, archive |-> <<>>]
  ELSE IF ManifestPath \in DOMAIN tempDir /\ tempDir[ManifestPath].kind = "dir"
  THEN [err |-> "writeManifest", tempDir |-> tempDir, archive |-> <<>>]
  ELSE [err |-> Nil,
        tempDir |-> Put(tempDir, ManifestPath, FileNode(MarshalIndent(m))),
        archive |-> walkEntries(Put(tempDir, ManifestPath, FileNode(MarshalIndent(m))),
                                WalkOrder)]

\* the directory a path is in
parentOf(path) == SubSeq(path, 1, Len(path) - 1)

\* filepath.Join(destDir, name), relative to destDir: the names of the
\* path cleaned, "." dropped and "x/.." removed; a path that starts with
\* ".." lies outside destDir
RECURSIVE joinDest(_, _)
joinDest(done, rest) ==
  IF rest = <<>> THEN done
  ELSE IF Head(rest) = "." THEN joinDest(done, Tail(rest))
  ELSE IF Head(rest) = ".." /\ done # <<>> /\ done[Len(done)] # ".."
  THEN joinDest(SubSeq(done, 1, Len(done) - 1), Tail(rest))
  ELSE joinDest(Append(done, Head(rest)), Tail(rest))

\* destDir itself or a directory above it
atOrAbove(path) == \A i \in 1..Len(path) : path[i] = ".."

\* whether the process may create an entry in the directory at path
mayCreateIn(tree, path, asRoot) ==
  asRoot \/ atOrAbove(path) \/ (path \in DOMAIN tree /\ tree[path].writable)

\* os.MkdirAll(path, mode): nothing if the directory exists, else the
\* parents with the same mode and then the directory
RECURSIVE MkdirAll(_, _, _, _)
MkdirAll(tree, path, writable, asRoot) ==
  IF atOrAbove(path) THEN [err |-> Nil, tree |-> tree]
  ELSE IF path \in DOMAIN tree
  THEN [err |-> IF tree[path].kind = "dir" THEN Nil ELSE "notDir", tree |-> tree]
  ELSE LET up == MkdirAll(tree, parentOf(path), writable, asRoot)
       IN IF up.err # Nil THEN up
          ELSE IF ~mayCreateIn(up.tree, parentOf(path), asRoot)
          THEN [err |-> "permission", tree |-> up.tree]
          ELSE [err |-> Nil, tree |-> Put(up.tree, path, DirNode(writable))]

\* an extraction that passes over the entries of other types
extractEntry_SkipUnsupported(dest, header, asRoot) ==
  LET targetPath == joinDest(<<>>, header.Name)
  IN IF header.Typeflag = "TypeDir"
     THEN LET r == MkdirAll(dest, targetPath, header.writable, asRoot)
          IN [err |-> IF r.err # Nil THEN "createDirectory" ELSE Nil, tree |-> r.tree]
     ELSE IF header.Typeflag = "TypeReg"
     THEN LET r == MkdirAll(dest, parentOf(targetPath), TRUE, asRoot)
          IN IF r.err # Nil THEN [err |-> "mkdirParent", tree |-> r.tree]
             ELSE IF ~mayCreateIn(r.tree, parentOf(targetPath), asRoot)
                     \/ atOrAbove(targetPath)
                     \/ (targetPath \in DOMAIN r.tree /\ r.tree[targetPath].kind = "dir")
             THEN [err |-> "createFile", tree |-> r.tree]
             ELSE [err |-> Nil, tree |-> Put(r.tree, targetPath, FileNode(header.data))]
     ELSE [err |-> Nil, tree |-> dest]

\* ExtractArchive: one iteration of its loop
extractEntry(dest, header, asRoot) ==
  LET targetPath == joinDest(<<>>, header.Name)
  IN IF header.Typeflag = "TypeDir"
     THEN LET r == MkdirAll(dest, targetPath, header.writable, asRoot)
          IN [err |-> IF r.err # Nil THEN "createDirectory" ELSE Nil, tree |-> r.tree]
     ELSE IF header.Typeflag = "TypeReg"
     THEN LET r == MkdirAll(dest, parentOf(targetPath), TRUE, asRoot)
          IN IF r.err # Nil THEN [err |-> "mkdirParent", tree |-> r.tree]
             ELSE IF ~mayCreateIn(r.tree, parentOf(targetPath), asRoot)
                     \/ atOrAbove(targetPath)
                     \/ (targetPath \in DOMAIN r.tree /\ r.tree[targetPath].kind = "dir")
             THEN [err |-> "createFile", tree |-> r.tree]
             ELSE [err |-> Nil, tree |-> Put(r.tree, targetPath, FileNode(header.data))]
     ELSE [err |-> "unsupportedType", tree |-> dest]

\* ExtractArchive: the loop over the entries, in stream order
RECURSIVE ExtractArchive(_, _, _)
ExtractArchive(archive, destDir, asRoot) ==
  IF archive = <<>> THEN [err |-> Nil, tree |-> destDir]
  ELSE LET r == extractEntry(destDir, Head(archive), asRoot)
       IN IF r.err # Nil THEN r
          ELSE ExtractArchive(Tail(archive), r.tree, asRoot)

\* ExportArtifacts applied to a manifest and a cache directory
ApplyExport ==
  /\ fnOp = "off"
  /\ \E m \in { m \in Manifests : Len(m.Images) + Len(m.Models) + Len(m.Charts) <= 1 },
        tree \in CacheTrees, io \in {"ok", "createErr"} :
       /\ fnOp' = "ExportArtifacts"
       /\ fnIn' = [manifest |-> m, tempDir |-> tree]
       /\ fnOut' = ExportArtifacts(m, tree, io)
  /\ UNCHANGED <<credVars, lastOp, pullVars, mirrorVars, procs>>

\* ExtractArchive applied to the archive of the export, into an empty
\* directory, as root or as another user
ApplyExtract ==
  /\ fnOp = "ExportArtifacts"
  /\ fnOut.err = Nil
  /\ \E asRoot \in BOOLEAN :
       /\ fnOp' = "ExtractArchive"
       /\ fnIn' = [manifest |-> fnIn.manifest, tempDir |-> fnOut.tempDir,
                   archive |-> fnOut.archive, asRoot |-> asRoot]
       /\ fnOut' = ExtractArchive(fnOut.archive, [q \in {} |-> FileNode(EmptyStr)], asRoot)
  /\ UNCHANGED <<credVars, lastOp, pullVars, mirrorVars, procs>>

MaxEntries == 3

\* entries an archive made by another tool may hold: directories, regular
\* files, a symbolic link, and names with ".." in them
ForeignEntries ==
  { [Name |-> <<"sub">>, Typeflag |-> "TypeDir", writable |-> TRUE, data |-> EmptyStr],
    [Name |-> <<"sub", "b.tar">>, Typeflag |-> "TypeReg", writable |-> TRUE, data |-> <<"x">>],
    [Name |-> <<"a.tar">>, Typeflag |-> "TypeReg", writable |-> TRUE, data |-> <<"y">>],
    [Name |-> <<"link">>, Typeflag |-> "TypeSymlink", writable |-> TRUE, data |-> EmptyStr],
    [Name |-> <<"..", "evil">>, Typeflag |-> "TypeReg", writable |-> TRUE, data |-> <<"x">>],
    [Name |-> <<"sub", "..", "..", "up">>, Typeflag |-> "TypeDir", writable |-> TRUE,
     data |-> EmptyStr] }

\* ExtractArchive applied to any stream of entries, into an empty directory
ApplyExtractStream ==
  /\ fnOp = "off"
  /\ \E archive \in SeqsUpTo(ForeignEntries, MaxEntries), asRoot \in BOOLEAN :
       /\ fnOp' = "ExtractArchiveStream"
       /\ fnIn' = [archive |-> archive, asRoot |-> asRoot]
       /\ fnOut' = ExtractArchive(archive, [q \in {} |-> FileNode(EmptyStr)], asRoot)
  /\ UNCHANGED <<credVars, lastOp, pullVars, mirrorVars, procs>>

----------------------------------------------------------------------------
(* Logging *)

LogLevelError == 0

LogLevelWarning == 1

LogLevelInfo == 2

LogLevelDebug == 3

MaxVerbosity == 3

\* the values --verbose, an int flag, is given
Verbosities == (0 - MaxVerbosity)..MaxVerbosity

\* SetLogLevel: the CurrentLogLevel a verbosity sets
SetLogLevel(verbosity) ==
  IF verbosity = 0 THEN LogLevelWarning
  ELSE IF verbosity = 1 THEN LogLevelInfo
  ELSE LogLevelDebug

\* LogError, LogWarning, LogInfo, LogDebug: whether the message of a level
\* is written to LogOutput
logWritten(currentLogLevel, level) == currentLogLevel >= level

\* SetLogLevel(verbosity) and then the log function of a level
ApplyLog ==
  /\ fnOp = "off"
  /\ \E verbosity \in Verbosities,
        level \in {LogLevelError, LogLevelWarning, LogLevelInfo, LogLevelDebug} :
       /\ fnOp' = "Log"
       /\ fnIn' = [verbosity |-> verbosity, level |-> level]
       /\ fnOut' = [CurrentLogLevel |-> SetLogLevel(verbosity),
                    written |-> logWritten(SetLogLevel(verbosity), level)]
  /\ UNCHANGED <<credVars, lastOp, pullVars, mirrorVars, procs>>

\* repositories without a reference, with and without a port on the host
BareRepositories == { u \in RepositoryURIs : u[Len(u)] # "t1" }

\* the references a URI can carry: none, a tag, a digest
ReferenceSamples == { EmptyStr, <<"t1">>, <<"sha256", ":", "d1">> }

\* splitRepositoryAndReference applied to a repository with a reference
ApplySplit ==
  /\ fnOp = "off"
  /\ \E repo \in BareRepositories, ref \in ReferenceSamples :
       /\ fnOp' = "splitRepositoryAndReference"
       /\ fnIn' = [repo |-> repo, ref |-> ref,
                   uri |-> IF ref = EmptyStr THEN repo
                           ELSE IF ref[1] = "sha256" THEN repo \o <<"@">> \o ref
                           ELSE repo \o <<":">> \o ref]
       /\ fnOut' = splitRepositoryAndReference(
                     IF ref = EmptyStr THEN repo
                     ELSE IF ref[1] = "sha256" THEN repo \o <<"@">> \o ref
                     ELSE repo \o <<":">> \o ref)
  /\ UNCHANGED <<credVars, lastOp, pullVars, mirrorVars, procs>>

----------------------------------------------------------------------------
(* cluster all check *)

\* the checks of `cluster all check`, in the order RunE calls them
AllChecks ==
  << "CheckKubernetesVersion", "CheckResources", "CheckNamespaceRBAC",
     "CheckClusterRBAC", "CheckStorageClassesCompatibility", "CheckStorageCapacity" >>

\* RunE from check i on: every check is called and assigns err, and a line
\* is printed for its outcome; failing is the set of checks that return an
\* error
RECURSIVE allCheckFrom(_, _, _)
allCheckFrom(i, failing, st) ==
  IF i > Len(AllChecks) THEN st
  ELSE allCheckFrom(i + 1, failing,
         [called |-> Append(st.called, AllChecks[i]),
          err |-> IF AllChecks[i] \in failing THEN AllChecks[i] ELSE Nil,
          out |-> Append(st.out, <<IF AllChecks[i] \in failing THEN "failed" ELSE "ok",
                                   AllChecks[i]>>)])

\* the end of RunE: the summary line and the returned error
allCheckSummary(st) ==
  IF st.err # Nil
  THEN [st EXCEPT !.out = Append(st.out, <<"summary", "One or more checks reported issues">>)]
  ELSE [st EXCEPT !.out = Append(st.out, <<"summary", "All checks completed successfully">>)]

\* allCheckCmd.RunE: the checks called, the lines printed and the error
\* returned
allCheckRunE(connectErr, failing) ==
  IF connectErr
  THEN [called |-> <<>>, err |-> "connect",
        out |-> << <<"failed", "Failed to connect to Kubernetes cluster">> >>]
  ELSE allCheckSummary(
         allCheckFrom(1, failing, [called |-> <<>>, err |-> Nil, out |-> <<>>]))

\* `cluster all check` run against a cluster: the connection fails or not,
\* and any of the checks fail
ApplyAllCheck ==
  /\ fnOp = "off"
  /\ \E connectErr \in BOOLEAN,
        failing \in SUBSET { AllChecks[i] : i \in 1..Len(AllChecks) } :
       /\ fnOp' = "allCheck"
       /\ fnIn' = [connectErr |-> connectErr, failing |-> failing]
       /\ fnOut' = allCheckRunE(connectErr, failing)
  /\ UNCHANGED <<credVars, lastOp, pullVars, mirrorVars, procs>>

----------------------------------------------------------------------------
(* Claims about the functions, checked under SpecFn *)

\* the last "/"-separated segment of a URI, without what follows its ":"
LastSegmentWithoutTag(uri) ==
  LET seg == SubSeq(uri, LastIndex(uri, "/") + 1, Len(uri))
  IN IF Index(seg, ":") = 0 THEN seg ELSE SubSeq(seg, 1, Index(seg, ":") - 1)

\* C15: for a scheme-stripped URI host[:port]/path/.../name[:tag],
\* extractNameFromURI returns the last "/"-separated segment without its
\* ":tag", that is, name.
C15_NameIsLastSegment ==
  fnOp = "extractNameFromURI" => fnOut = LastSegmentWithoutTag(fnIn)

AllKinds == [IncludeImages |-> TRUE, IncludeModels |-> TRUE, IncludeCharts |-> TRUE]

NoKinds == [IncludeImages |-> FALSE, IncludeModels |-> FALSE, IncludeCharts |-> FALSE]

\* C16: pull option normalization is idempotent and leaves at least one
\* include flag true: with all three flags false the result is all three
\* true, with any flag true the result is the argument, and a command line
\* without a filter selects every kind, one with filters exactly those kinds.
C16_NormalizePullIdempotent ==
  /\ fnOp = "NormalizePullOptions" =>
        /\ fnOut.twice = fnOut.once
        /\ fnOut.once.IncludeImages \/ fnOut.once.IncludeModels \/ fnOut.once.IncludeCharts
        /\ fnIn = NoKinds => fnOut.once = AllKinds
        /\ fnIn # NoKinds => fnOut.once = fnIn
  /\ fnOp = "pullFlags" =>
        IF ~fnIn.images /\ ~fnIn.models /\ ~fnIn.charts
        THEN fnOut = AllKinds
        ELSE fnOut = [IncludeImages |-> fnIn.images, IncludeModels |-> fnIn.models,
                      IncludeCharts |-> fnIn.charts]

\* the all-false PullOptions were normalized to every kind
C16_Witness ==
  /\ fnOp = "NormalizePullOptions"
  /\ fnIn = NoKinds
  /\ fnOut.once = AllKinds
  /\ fnOut.twice = AllKinds

\* C17: with no mirror filter, all three MirrorOptions flags false,
\* normalization yields the images alone.
C17_MirrorDefaultImagesOnly ==
  (fnOp = "NormalizeMirrorOptions" /\ fnIn = NoKinds) =>
    fnOut = [IncludeImages |-> TRUE, IncludeModels |-> FALSE, IncludeCharts |-> FALSE]

\* the target registry is of the provider with flat repository names
Flattened(targetRegistry) == Contains(targetRegistry, "amazonaws.com")

\* the URI ends in name:tag
Tagged(uri) == uri[Len(uri)] = "t1"

\* a push target was computed for a tagged image
TargetComputed ==
  /\ fnOp \in {"mirrorContainerImages", "RetagAndPushImage"}
  /\ Tagged(fnIn.uri)
  /\ fnOut.err = Nil

\* C18: with a target registry of the flattened-namespace provider, the
\* push target of an image with name n and tag t is targetRegistry:n-t, on
\* the RetagAndPushImage path and on the image mirror path.
C18_FlattenedTargetOnEveryPath ==
  (TargetComputed /\ Flattened(fnIn.targetRegistry)) =>
    fnOut.target = fnIn.targetRegistry \o <<":">> \o LastSegmentWithoutTag(fnIn.uri)
                     \o <<"-", "t1">>

\* C19: with a target registry that is not of the flattened-namespace
\* provider, the target reference of the image mirror path is the target
\* registry, without a trailing "/", followed by the path of the original
\* reference below its host and by the original tag or digest.
C19_HierarchyPreserved ==
  (/\ fnOp = "mirrorContainerImages"
   /\ fnOut.err = Nil
   /\ ~Flattened(fnIn.targetRegistry)) =>
    fnOut.target =
      TrimSuffix(fnIn.targetRegistry, <<"/">>) \o <<"/">>
        \o SubSeq(fnIn.uri, Index(fnIn.uri, "/") + 1, Len(fnIn.uri))

\* host/a/b/foo@sha256:d was mapped below a target given with a trailing "/"
C19_Witness ==
  /\ fnOp = "mirrorContainerImages"
  /\ fnIn = [uri |-> <<"r1", "/", "a", "/", "b", "/", "foo", "@", "sha256", ":", "d1">>,
             targetRegistry |-> <<"t1", "/">>]
  /\ fnOut = [err |-> Nil,
              target |-> <<"t1", "/", "a", "/", "b", "/", "foo", "@", "sha256", ":", "d1">>]

\* the relative paths of a tree, each with its kind and its content
PathsAndContents(tree) ==
  { [path |-> q, kind |-> tree[q].kind, data |-> tree[q].data] : q \in DOMAIN tree }

\* C20: extracting the archive ExportArtifacts produced into an empty
\* directory succeeds and yields a directory whose manifest.json is the
\* exported manifest and whose relative paths and file contents are those
\* of the cache directory.
C20_ExportImportRoundTrip ==
  fnOp = "ExtractArchive" =>
    /\ fnOut.err = Nil
    /\ ManifestPath \in DOMAIN fnOut.tree
    /\ fnOut.tree[ManifestPath].data = MarshalIndent(fnIn.manifest)
    /\ PathsAndContents(fnOut.tree) = PathsAndContents(fnIn.tempDir)

\* the position of the first entry of an archive that is neither a
\* directory nor a regular file, 0 if there is none
FirstUnsupported(archive) ==
  IF \E i \in 1..Len(archive) : archive[i].Typeflag \notin {"TypeDir", "TypeReg"}
  THEN CHOOSE i \in 1..Len(archive) :
         /\ archive[i].Typeflag \notin {"TypeDir", "TypeReg"}
         /\ \A j \in 1..(i - 1) : archive[j].Typeflag \in {"TypeDir", "TypeReg"}
  ELSE 0

\* C21: ExtractArchive takes the entries in stream order and returns an
\* error at the first entry that is neither a directory nor a regular
\* file; it does not skip it, and what it leaves on disk is what the
\* entries before it produced, so no later entry is written.
C21_UnsupportedEntryIsHardError ==
  (fnOp = "ExtractArchiveStream" /\ FirstUnsupported(fnIn.archive) # 0) =>
    /\ fnOut.err # Nil
    /\ fnOut.tree =
         ExtractArchive(SubSeq(fnIn.archive, 1, FirstUnsupported(fnIn.archive) - 1),
                        [q \in {} |-> FileNode(EmptyStr)], fnIn.asRoot).tree

\* a file, then a symbolic link, then a second file: the extraction stopped
\* at the link with the first file written and the second not
C21_Witness ==
  /\ fnOp = "ExtractArchiveStream"
  /\ Len(fnIn.archive) = 3
  /\ fnIn.archive[1].Name = <<"a.tar">>
  /\ fnIn.archive[2].Typeflag = "TypeSymlink"
  /\ fnIn.archive[3].Name = <<"sub", "b.tar">>
  /\ fnOut.err = "unsupportedType"
  /\ DOMAIN fnOut.tree = {<<"a.tar">>}

\* C29: ExtractArchive creates files and directories inside destDir only,
\* whatever the names of the entries, names with ".." included.
C29_ExtractStaysInsideDest ==
  fnOp = "ExtractArchiveStream" =>
    \A q \in DOMAIN fnOut.tree : q[1] # ".."

\* C24: a message of level L is written if and only if the current level
\* is at least L; verbosity 0 sets Warning, 1 Info and 2 Debug; Error and
\* Warning messages are written at every verbosity; and a message written
\* at one verbosity is written at every higher one.
C24_LogLevelsMonotone ==
  fnOp = "Log" =>
    /\ fnOut.written <=> (fnOut.CurrentLogLevel >= fnIn.level)
    /\ fnIn.verbosity = 0 => fnOut.CurrentLogLevel = LogLevelWarning
    /\ fnIn.verbosity = 1 => fnOut.CurrentLogLevel = LogLevelInfo
    /\ fnIn.verbosity = 2 => fnOut.CurrentLogLevel = LogLevelDebug
    /\ fnIn.level \in {LogLevelError, LogLevelWarning} => fnOut.written
    /\ \A higher \in Verbosities :
         (higher > fnIn.verbosity /\ fnOut.written) =>
           logWritten(SetLogLevel(higher), fnIn.level)

\* C26: splitRepositoryAndReference returns (repo, tag) for 'repo:tag',
\* (repo, 'sha256:<hex>') for 'repo@sha256:<hex>', and (uri, '') for a URI
\* with neither, a port on the registry host included.
C26_SplitsTagAndDigest ==
  fnOp = "splitRepositoryAndReference" =>
    /\ fnOut.repo = fnIn.repo
    /\ fnOut.ref = fnIn.ref

\* C30: `cluster all check` runs the six checks in order whatever fails,
\* and reports success (the 'All checks completed successfully' line and a
\* nil error) only if every check succeeded; if any check failed it returns
\* an error.
C30_AllCheckFailsIfAnyCheckFails ==
  (fnOp = "allCheck" /\ ~fnIn.connectErr) =>
    /\ fnOut.called = AllChecks
    /\ (fnOut.err = Nil) <=> (fnIn.failing = {})
    /\ (\E i \in 1..Len(fnOut.out) :
          fnOut.out[i] = <<"summary", "All checks completed successfully">>)
         <=> (fnIn.failing = {})

----------------------------------------------------------------------------
(* Functions applied on their own: the specification *)

InitFn ==
  /\ credentialStoreOnce = FALSE
  /\ cachedCredentialStore = NilStore
  /\ credentialStoreErr = Nil
  /\ storeFile = AbsentFile
  /\ lastOp = NoOp
  /\ PullOff
  /\ MirrorOff
  /\ FnOff
  /\ LoginsOff

NextFn ==
  \/ ApplyExtractName
  \/ ApplyNormalizePull
  \/ ApplyPullFlags
  \/ ApplyNormalizeMirror
  \/ ApplyMirrorTarget
  \/ ApplyRetagTarget
  \/ ApplyExport
  \/ ApplyExtract
  \/ ApplyExtractStream
  \/ ApplyLog
  \/ ApplySplit
  \/ ApplyAllCheck

SpecFn == InitFn /\ [][NextFn]_vars

----------------------------------------------------------------------------
(* Claims about processManifest and MirrorArtifacts, checked under SpecMirror *)

\* processManifest has returned, or RunE has gone on to MirrorArtifacts
ProcessManifestDone ==
  \/ mirrorPc \in {"mirror", "push"}
  \/ mirrorPc = "returned" /\ mirrorErr \notin {"sourceFlags", "targetRequired",
                                               "createCache", "pullManifest"}

\* no artifact of the manifest is of a kind the normalized options include
NothingSelected ==
  LET options == NormalizePullOptions(mirrorPullOptions(mirrorFlags))
  IN /\ options.IncludeImages => manifest.Images = <<>>
     /\ options.IncludeModels => manifest.Models = <<>>
     /\ options.IncludeCharts => manifest.Charts = <<>>

\* C22: with no artifact in the included kinds, processManifest pulls
\* nothing; it returns 'no artifacts found in manifest' unless the manifest
\* path contains "testdata", and then it returns success.  A manifest whose
\* artifacts are all filtered out counts as one without artifacts.
C22_NoArtifactsIsAnError ==
  (ProcessManifestDone /\ NothingSelected /\ mirrorErr # "loadManifest") =>
    /\ pulled = {}
    /\ IF Contains(manifestPathOf(mirrorFlags), "testdata")
       THEN mirrorErr # "noArtifacts"
       ELSE mirrorPc = "returned" /\ mirrorErr = "noArtifacts"

\* a manifest with models only, read from a path without "testdata" and
\* filtered to the images, was refused
C22_Witness ==
  /\ mirrorPc = "returned"
  /\ mirrorErr = "noArtifacts"
  /\ mirrorFlags.file = <<"m.json">>
  /\ manifest.Models # <<>>
  /\ manifest.Images = <<>>
  /\ pulled = {}

\* MirrorArtifacts has been called
MirrorArtifactsCalled ==
  \/ mirrorPc = "push"
  \/ mirrorPc = "returned"
     /\ mirrorErr \notin {"sourceFlags", "targetRequired", "createCache", "pullManifest",
                          "loadManifest", "noArtifacts", "pullArtifacts"}

\* C25: when the normalized options include models and the manifest lists
\* a model, or include charts and the manifest lists a chart, MirrorArtifacts
\* returns a 'not supported yet' error and has pushed no image: the target
\* registry is as it was.
C25_ModelsAndChartsNotPushed ==
  LET options == NormalizeMirrorOptions(
                   MirrorOptionsFromPull(mirrorPullOptions(mirrorFlags)))
  IN (/\ MirrorArtifactsCalled
      /\ \/ options.IncludeModels /\ manifest.Models # <<>>
         \/ options.IncludeCharts /\ manifest.Charts # <<>>) =>
       /\ mirrorPc = "returned"
       /\ mirrorErr = IF options.IncludeModels /\ manifest.Models # <<>>
                      THEN "modelsNotSupported" ELSE "chartsNotSupported"
       /\ pushes = <<>>
       /\ pushed = {}

\* --images and --models with a manifest of an image and a model: the pull
\* went through and the mirror was refused before the image was pushed
C25_Witness ==
  /\ mirrorPc = "returned"
  /\ mirrorErr = "modelsNotSupported"
  /\ mirrorFlags.images
  /\ manifest.Images # <<>>
  /\ pulled # {}
  /\ pushes = <<>>
  /\ pushed = {}

----------------------------------------------------------------------------
(* Claims about both commands, checked under SpecCommands *)

\* C23: pull and mirror require exactly one of --url and --file; with
\* neither or both the command returns 'exactly one of --url or --file must
\* be set' and has created no directory, loaded no manifest and sent no
\* request.
C23_ExactlyOneSourceOrNothingDone ==
  LET invalid == (mirrorFlags.url = EmptyStr) = (mirrorFlags.file = EmptyStr)
  IN /\ (invalid /\ pc \notin {"off", "start"}) =>
          /\ pc = "aborted"
          /\ retErr = "sourceFlags"
          /\ outputDir = {}
          /\ components = <<>>
          /\ attempts = <<>>
          /\ ~lastReq.req.sent
     /\ (invalid /\ mirrorPc \notin {"off", "start"}) =>
          /\ mirrorPc = "returned"
          /\ mirrorErr = "sourceFlags"
          /\ cacheDir = NoDir
          /\ pulled = {}
          /\ pushes = <<>>
          /\ ~lastReq.req.sent
     /\ (~invalid /\ pc \notin {"off", "start"}) => retErr # "sourceFlags"
     /\ (~invalid /\ mirrorPc \notin {"off", "start"}) => mirrorErr # "sourceFlags"

\* pull was given --url and --file and returned the error
C23_Witness ==
  /\ pc = "aborted"
  /\ retErr = "sourceFlags"
  /\ mirrorFlags.url # EmptyStr
  /\ mirrorFlags.file # EmptyStr
  /\ outputDir = {}

----------------------------------------------------------------------------
(* Two invocations of `registry login` at the same time *)

\* the store file the two invocations find: absent, holding an older entry
\* for r1, or unparsable
LoginInitFiles ==
  { AbsentFile,
    [exists |-> TRUE, mode |-> OwnerOnly,
     content |-> ContentMap([h \in {<<"r1">>} |->
                   [Username |-> <<"old">>, Password |-> <<"p">>,
                    IdentityToken |-> EmptyStr, AccessToken |-> EmptyStr]])],
    [exists |-> TRUE, mode |-> OwnerOnly, content |-> ContentGarbage] }

\* the package variables of invocation p, with the file all invocations share
ProcWorld(p) ==
  [once |-> procs[p].pc # "start", cached |-> procs[p].store, cerr |-> Nil,
   file |-> storeFile]

InitLogins ==
  /\ PullOff
  /\ MirrorOff
  /\ FnOff
  /\ credentialStoreOnce = FALSE
  /\ cachedCredentialStore = NilStore
  /\ credentialStoreErr = Nil
  /\ lastOp = NoOp
  /\ storeFile \in LoginInitFiles
  /\ \E c1 \in CredSamples, c2 \in CredSamples :
       procs = [p \in Procs |->
                 [pc |-> "start", registry |-> LoginHost[p],
                  cred |-> IF p = 1 THEN c1 ELSE c2,
                  store |-> NilStore, after |-> {}]]

\* SaveRegistryCredential in invocation p: loadCredentialStore reads the file
LoginLoad(p) ==
  /\ procs[p].pc = "start"
  /\ \E env \in {"ok", "readErr"} :
       LET l == loadCredentialStore(ProcWorld(p), env)
       IN procs' = [procs EXCEPT ![p] =
                      IF l.err # Nil
                      THEN [procs[p] EXCEPT !.pc = "failed"]
                      ELSE [procs[p] EXCEPT
                              !.pc = "loaded",
                              !.store = l.store,
                              !.after = { q \in Procs : procs[q].pc = "done" }]]
  /\ UNCHANGED <<credVars, lastOp, pullVars, mirrorVars, fnVars>>

\* SaveRegistryCredential in invocation p: store.Credentials[registry] = cred
LoginSet(p) ==
  /\ procs[p].pc = "loaded"
  /\ procs' = [procs EXCEPT ![p] =
                 [procs[p] EXCEPT
                    !.pc = "set",
                    !.store = setCredential(procs[p].store, procs[p].registry,
                                            procs[p].cred)]]
  /\ UNCHANGED <<credVars, lastOp, pullVars, mirrorVars, fnVars>>

\* SaveRegistryCredential in invocation p: the file is opened, truncated and
\* written with the whole map of p
LoginWrite(p) ==
  /\ procs[p].pc = "set"
  /\ \E env \in {"ok", "writeErr"} :
       LET r == SaveRegistryCredentialWrite(ProcWorld(p), env)
       IN /\ storeFile' = r.w.file
          /\ procs' = [procs EXCEPT ![p] =
                         [procs[p] EXCEPT
                            !.pc = IF r.err = Nil THEN "done" ELSE "failed"]]
  /\ UNCHANGED <<credentialStoreOnce, cachedCredentialStore, credentialStoreErr,
                 lastOp, pullVars, mirrorVars, fnVars>>

NextLogins == \E p \in Procs : LoginLoad(p) \/ LoginSet(p) \/ LoginWrite(p)

SpecLogins == InitLogins /\ [][NextLogins]_vars

----------------------------------------------------------------------------
(* Claims about concurrent logins, checked under SpecLogins *)

\* both invocations have returned without an error
BothDone == \A p \in Procs : procs[p].pc = "done"

\* the store file holds what invocation p saved
Kept(p) ==
  /\ storeFile.exists
  /\ storeFile.content.kind = "map"
  /\ procs[p].registry \in DOMAIN storeFile.content.creds
  /\ storeFile.content.creds[procs[p].registry] = procs[p].cred

\* one invocation began after the other had finished
OneAfterTheOther == \E p \in Procs : Procs \ {p} \subseteq procs[p].after

\* C27: two logins for different hosts against the same store file are not
\* safe when concurrent: once both have returned without error, the file
\* holds both entries exactly when one invocation ran after the other; when
\* their load, update and rewrite steps interleave, one entry is lost.
C27_BothKeptIffOneAfterTheOther ==
  BothDone => ((\A p \in Procs : Kept(p)) <=> OneAfterTheOther)

\* the lost update: both logins succeeded, the file holds the entry of the
\* second invocation and not that of the first
C27_Witness ==
  /\ BothDone
  /\ ~OneAfterTheOther
  /\ Kept(2)
  /\ procs[1].registry \notin DOMAIN storeFile.content.creds

====
